---------------------------- MODULE Spec2Model ----------------------------
(***************************************************************************)
(* State-machine model of the remote-desktop agent (src/agent/src).        *)
(*                                                                         *)
(*   SpecAgent      agent.rs      session registry, timeout sweep,         *)
(*                                status-refresh task, start/stop          *)
(*   SpecTransport  transport.rs  connection registry, send/broadcast,     *)
(*                                close, stop                              *)
(*   SpecCapture    capture.rs    capture tasks, start/stop                *)
(*   SpecCaptureLive              the same under fair scheduling, with the *)
(*                                configuration the manager was built with *)
(*   SpecPacing     capture.rs    the capture loop in milliseconds         *)
(*   SpecEncoder    encoder.rs    initialize, encode_frame, shutdown       *)
(*   SpecInbound    agent.rs      the agent and its clients' messages      *)
(*   SpecTransportLive            the same under fair scheduling           *)
(*   SpecLocks      transport.rs  the guards held inside send_message      *)
(*   SpecCaptureStalled           the capture tasks under fair scheduling, *)
(*                                with a sink that is not drained          *)
(*   SpecRate       capture.rs    frames delivered in a window, and fps    *)
(*   SpecConfig     config.rs     Config::default and validate             *)
(*   SpecFormat     utils.rs      format_bytes, format_bitrate             *)
(*   SpecInput      input.rs      start, stop and the input task           *)
(*   SpecAgentLocks agent.rs      the order in which the agent's methods   *)
(*                                and tasks take the two Mutexes           *)
(*   SpecMessages   transport.rs  the task that handles inbound messages   *)
(*   SpecLoss       utils.rs      calculate_packet_loss                    *)
(*                                                                         *)
(* Every std::sync::Mutex critical section that contains no await is one   *)
(* atomic step.  Wall-clock time is counted in seconds, as the code reads  *)
(* it (SystemTime::now() ... .as_secs()).  u64 subtraction follows the     *)
(* release profile (wrapping); with overflow checks compiled in, the same  *)
(* subtraction panics inside the task that performs it.                    *)
(***************************************************************************)
EXTENDS Integers, Sequences, FiniteSets, TLC

(* ------------------------------ bounds -------------------------------- *)

\* number of v4 UUIDs the session registry may draw in one run
MaxSessions == 2
\* number of times the wall clock is advanced in one run
MaxAdvances == 1
\* number of v4 UUIDs the connection registry may draw in one run
MaxConnections == 2
\* number of CaptureManager::start calls that spawn a task in one run
MaxStarts == 2
\* capacity of the frame channel handed to set_frame_sender
FrameChanCap == 1
\* value at which the model stops counting metrics.frames_captured
MaxFrames == 2
\* number of capture_frame calls that may return Err in one run
MaxCaptureErrs == 1

\* the largest frame rate of an encoder configuration
MaxFramerate == 2

\* the largest number of bytes of a raw frame
MaxRgbaLen == 4

\* the number of encode_frame calls followed
MaxEncodes == 9

\* the window over which deliveries are counted, in milliseconds
WindowMs == 1000

\* capture loop line 201: the sleep after a failed capture, in milliseconds
ErrorSleepMs == 100

\* how long a slow sink keeps one send waiting, in milliseconds
SinkDelayMs == 200

\* by how many frames per second a metric may differ from a count
JitterTolerance == 3

\* config.rs line 199: the largest framerate validate accepts
MaxValidFramerate == 120

\* how far from a unit the arguments of the formatters are taken
MaxOffset == 20

\* the calls of InputManager::start
MaxInputStarts == 3

\* the largest packet count passed to calculate_packet_loss
MaxPackets == 105

\* the largest width and height of a frame given to rgba_to_yuv420
MaxDim == 4

\* tasks calling the Agent's &self methods (they run beside the sweep task,
\* the status task and the owner that calls start() and stop())
Callers == {"t1"}
\* tasks calling the TransportManager's &self methods
TCallers == {"u1", "u2"}

\* the tasks inside send_message, and the three Mutexes of TransportManager
\* (transport.rs lines 27-29)
Senders == {"s1", "s2"}
Locks == {"connections", "webrtc_peer_connections", "websocket_connections"}
ClientIds == {"alice", "bob"}

(* --------------------------- Option values ---------------------------- *)

None == << >>
Some(v) == << v >>

(* --------------------------- HashMap<K, V> ---------------------------- *)

HashMapInsert(m, k, v) == [x \in (DOMAIN m) \cup {k} |-> IF x = k THEN v ELSE m[x]]

\* faulty variants of remove, which the properties below must reject: one
\* that removes nothing, one that keeps only the key it was asked to remove
HashMapRemove_Noop(m, k) == m

HashMapRemove_Keep(m, k) == [x \in (DOMAIN m) \cap {k} |-> m[x]]

HashMapRemove(m, k) == [x \in (DOMAIN m) \ {k} |-> m[x]]

HashMapGet(m, k) == IF k \in DOMAIN m THEN Some(m[k]) ELSE None

HashMapLen(m) == Cardinality(DOMAIN m)

EmptyMap == [x \in {} |-> None]

\* Uuid::new_v4(): a value no earlier call returned (count: how many were drawn)
NewV4(count) == count + 1

(* ----------------------------- variables ------------------------------ *)

VARIABLES
    now,                \* SystemTime::now() in whole seconds since the epoch
    advances            \* how often the clock has been advanced (bounded)

\* agent.rs
VARIABLES
    sessions,           \* Agent.sessions: HashMap<String, Session>
    status,             \* Agent.status: AgentStatus (sessions, metrics)
    uuid_count,         \* number of UUIDs drawn so far by create_session
    callerPc,           \* position of each caller inside create/destroy_session
    callerId,           \* the session id of the call in progress
    callerRet,          \* what the caller's last completed call returned
    agentPc,            \* owner of the Agent: "new", "running", "stop_sessions", ...
    stopIds,            \* stop_all_sessions: ids still to destroy
    shutdown_tx,        \* Agent.shutdown_tx is Some
    shutdown_chan,      \* messages buffered in the mpsc::channel(1)
    sweepPc,            \* timeout-sweep task position
    sweepNow,           \* the sweep's local `now`
    sessions_to_remove, \* the sweep's local Vec of expired ids
    statusPc,           \* status-refresh task position
    created,            \* history: id -> client_id argument of its create_session
    destroyReturned,    \* history: ids whose destroy_session returned
    evicted,            \* history: ids removed by the sweep
    inbound             \* history: the session of the last inbound message (0: none)

\* transport.rs
VARIABLES
    connections,             \* HashMap<String, ConnectionInfo>
    webrtc_peer_connections, \* keys of HashMap<String, Arc<RTCPeerConnection>>
    websocket_connections,   \* keys of HashMap<String, WebSocketStream>
    conn_uuid_count,         \* number of UUIDs drawn so far by create_*_connection
    tPc,                     \* position of each caller inside broadcast / close
    tId,                     \* close_connection: the connection_id argument
    tInfo,                   \* close_connection: the cloned connection_info
    bcastSnapshot,           \* broadcast_message: connection_ids
    bcastLeft,               \* broadcast_message: ids the for loop has not reached
    bcastAttempts,           \* history: id -> send_message calls of this broadcast
    bcastErrs,               \* history: ids whose send_message returned Err
    tRet,                    \* the call that returned last, and its result (op
                             \* "close_miss": a close_connection whose lookup
                             \* found no entry)
    ws_written,              \* history: ids on whose websocket a write was attempted
    message_tx,              \* message_tx: "None", or Some of the "internal" channel
                             \* made by start, or of an "external" one
    transport_handle,        \* TransportManager.transport_handle is Some
    msgTaskPc,               \* message-processing task position
    tmPc,                    \* owner of the TransportManager: "idle", "stop_ws", ...
    tmCleared,               \* history: entries the last connections.clear() dropped
    closed                   \* history: ids that a close_connection removed from
                             \* the registry

\* capture.rs
VARIABLES
    is_capturing,       \* Arc<Mutex<bool>>
    frame_tx,           \* CaptureManager.frame_tx is Some
    capture_handle,     \* Option<JoinHandle>: 0 is None, t > 0 the handle of task t
    taskPc,             \* position of each spawned capture task
    spawned,            \* number of capture tasks spawned so far
    frame_chan,         \* frames buffered in the frame channel
    rx_open,            \* the receiving end of the frame channel is alive
    frames_captured,    \* metrics.frames_captured
    capPc,              \* owner of the CaptureManager: "idle", "started", ...
    awaited,            \* stop: the handle taken and awaited (0: none)
    capRet,             \* what the owner's last start()/stop() returned
    config_quality,     \* CaptureManager.config.quality
    config_framerate,   \* CaptureManager.config.framerate
    task_quality,       \* each live task's clone of config: config.quality
    task_interval,      \* each live task's frame_interval in ms
    capErr              \* history: number of capture_frame calls that returned Err

\* capture.rs, the capture loop of one task with its timing (milliseconds);
\* every duration is counted up to the frame interval, beyond which the loop
\* does not tell durations apart
VARIABLES
    pPc,                \* position of the task in the loop
    pElapsed,           \* time since last_frame_time
    pSinceNow,          \* time since the loop's `now` was read
    pSlept,             \* the sleep in progress has lasted at least 1 ms
    pDelivered,         \* history: a frame has been delivered
    pSinceDelivery      \* history: time since the last delivery

\* encoder.rs
VARIABLES
    encPc,              \* the VideoEncoder: "none", "ready", "panicked"
    enc_quality,        \* VideoEncoder.config.quality
    enc_framerate,      \* VideoEncoder.config.framerate
    encoder,            \* Arc<Mutex<Option<Encoder>>>: "None" or "Some"
    frame_count,        \* VideoEncoder.frame_count
    last_keyframe,      \* VideoEncoder.last_keyframe
    encRet,             \* the encoder call that returned last, and its result
    bitrate,            \* what get_bitrate returned last (0: not called)
    initCalled,         \* history: initialize() has been called
    initOk,             \* history: initialize() returned Ok, no shutdown() since
    shutSinceInit       \* history: shutdown() called since the last initialize()

\* capture.rs: one second of the capture loop
VARIABLES
    wTime,              \* milliseconds since the task was spawned (up to WindowMs)
    wLast,              \* last_frame_time, in milliseconds since the spawn
    wDelivered,         \* history: frames delivered to the sink so far
    fps                 \* metrics.fps

\* config.rs
VARIABLES
    conf,               \* the Config under validation: None, or Some(config)
    validateRet         \* what validate returned for it ("-": not called)

\* utils.rs
VARIABLES
    fmtOp,              \* the formatter called last ("-": none)
    fmtArg,             \* its argument
    fmtRet              \* the String it returned

\* input.rs
VARIABLES
    is_enabled,         \* InputManager.is_enabled
    input_tx,           \* input_tx: 0 (None), t (the sender of task t's
                        \* channel) or External
    input_handle,       \* input_handle: 0 (None) or the task it joins
    inputTaskPc,        \* each input task: "none", "check", "recv", "done"
    inputPc             \* owner of the InputManager: "idle", "start_enable",
                        \* "stop_await", "stopped"

\* transport.rs, the locks of a send
VARIABLES
    lock_holder,        \* each Mutex: the task holding its guard, or "-"
    sendPc,             \* each sender: "idle", "await_send" (lines 105 / 108),
                        \* "await_ws_send" (line 238)
    sendId,             \* the connection_id of its call
    sendRet             \* what its last call returned

\* agent.rs, the locks of the session API
VARIABLES
    alock_holder,       \* Agent.sessions and Agent.status: the task holding
                        \* the guard, or "-"
    alOp,               \* each task: the operation it is in, or "-"
    alPc                \* and the step of LockProgram it is at

\* transport.rs, the message-processing task
VARIABLES
    msg                 \* the Message the task took from its channel last

\* utils.rs, calculate_packet_loss
VARIABLES
    plCall,             \* the arguments of the last call (None: no call yet)
    plRet               \* what it did

clockVars == <<now, advances>>

registryVars == <<sessions, status, uuid_count>>
callerVars == <<callerPc, callerId, callerRet>>
ownerVars == <<agentPc, stopIds, shutdown_tx, shutdown_chan>>
sweepVars == <<sweepPc, sweepNow, sessions_to_remove>>
histVars == <<created, destroyReturned, evicted>>
agentVars == <<registryVars, callerVars, ownerVars, sweepVars, statusPc, histVars,
              inbound>>

resourceVars == <<webrtc_peer_connections, websocket_connections>>
tCallerVars == <<tPc, tId, tInfo, tRet>>
bcastVars == <<bcastSnapshot, bcastLeft, bcastAttempts, bcastErrs>>
tmVars == <<message_tx, transport_handle, msgTaskPc, tmPc, tmCleared>>
transportVars == <<connections, conn_uuid_count, resourceVars, tCallerVars,
                   bcastVars, ws_written, tmVars, closed>>

cfgVars == <<config_quality, config_framerate, task_quality, task_interval>>
managerVars == <<is_capturing, frame_tx, capture_handle, taskPc,
                 spawned, frame_chan, rx_open, frames_captured, capPc, awaited,
                 capRet, cfgVars, capErr>>
pacingVars == <<pPc, pElapsed, pSinceNow, pSlept, pDelivered, pSinceDelivery>>
captureVars == <<managerVars, pacingVars>>

encHistVars == <<initCalled, initOk, shutSinceInit>>
encoderVars == <<encPc, enc_quality, enc_framerate, encoder, frame_count,
                 last_keyframe, encRet, bitrate, encHistVars>>

rateVars == <<wTime, wLast, wDelivered, fps>>

configVars == <<conf, validateRet>>

formatVars == <<fmtOp, fmtArg, fmtRet>>

inputVars == <<is_enabled, input_tx, input_handle, inputTaskPc, inputPc>>

lockVars == <<lock_holder, sendPc, sendId, sendRet>>

agentLockVars == <<alock_holder, alOp, alPc>>

msgVars == <<msg>>

lossVars == <<plCall, plRet>>

vars == <<clockVars, agentVars, transportVars, captureVars, encoderVars,
          rateVars, configVars, formatVars, inputVars, lockVars, agentLockVars,
          msgVars, lossVars>>

(* ======================================================================= *)
(*                               agent.rs                                  *)
(* ======================================================================= *)

\* config.auth.session_timeout, Config::default(): "3600000, // 1 hour"
session_timeout == 3600000

\* the same hour in the unit of now and last_activity (seconds)
SessionTimeoutSecs == session_timeout \div 1000

\* amounts by which the model advances the wall clock: just past the hour,
\* just past session_timeout seconds
ClockSteps == {SessionTimeoutSecs + 1, session_timeout + 1}

\* the strings a caller may pass as session_id: the ids create_session has
\* drawn so far, and 0 for a string that is no session's id
KnownIds == 0 .. uuid_count

\* faulty variant: a Session that does not carry the caller's client_id
NewSession_Anonymous(client_id, t) ==
    [client_id |-> "anonymous", start_time |-> t, last_activity |-> t]

\* the Session built by create_session (quality and stats are constants of
\* the configuration and are not read by any operation modelled here)
NewSession(client_id, t) ==
    [client_id |-> client_id, start_time |-> t, last_activity |-> t]

\* `now - session.last_activity > config.auth.session_timeout` on u64:
\* when last_activity > now the difference wraps to 2^64 - (last_activity - now),
\* which exceeds every timeout the model uses
Expired(n, last_activity) ==
    IF last_activity > n THEN TRUE ELSE n - last_activity > session_timeout

\* the sweep's scan: the ids pushed to sessions_to_remove
ExpiredIds(m, n) == {id \in DOMAIN m : Expired(n, m[id].last_activity)}

\* Agent::get_session
get_session(session_id) == HashMapGet(sessions, session_id)

AgentInit ==
    /\ sessions = EmptyMap
    /\ status = [sessions |-> 0, refreshed |-> FALSE]
    /\ uuid_count = 0
    /\ callerPc = [c \in Callers |-> "idle"]
    /\ callerId = [c \in Callers |-> 0]
    /\ callerRet = [c \in Callers |-> "-"]
    /\ agentPc = "new"
    /\ stopIds = {}
    /\ shutdown_tx = FALSE
    /\ shutdown_chan = 0
    /\ sweepPc = "none"
    /\ sweepNow = 0
    /\ sessions_to_remove = {}
    /\ statusPc = "none"
    /\ created = EmptyMap
    /\ destroyReturned = {}
    /\ evicted = {}
    /\ inbound = 0

\* the owner is not inside start() or stop(), which take &mut self (the model
\* follows an Agent up to the return of its stop())
ApiOpen == agentPc \in {"new", "running"}

CallersIdle == \A c \in Callers : callerPc[c] = "idle"

\* create_session, lines 99-118: draw the id, build the Session, insert it
CreateInsert(c) ==
    /\ ApiOpen
    /\ callerPc[c] = "idle"
    /\ uuid_count < MaxSessions
    /\ \E client \in ClientIds :
         /\ sessions' = HashMapInsert(sessions, NewV4(uuid_count), NewSession(client, now))
         /\ created' = HashMapInsert(created, NewV4(uuid_count), client)
    /\ uuid_count' = uuid_count + 1
    /\ callerId' = [callerId EXCEPT ![c] = NewV4(uuid_count)]
    /\ callerPc' = [callerPc EXCEPT ![c] = "create_status"]
    /\ callerRet' = [callerRet EXCEPT ![c] = "-"]
    /\ UNCHANGED <<clockVars, status, ownerVars, sweepVars, statusPc,
                   destroyReturned, evicted>>
    /\ UNCHANGED <<inbound, transportVars, captureVars, encoderVars,
                   rateVars, configVars, formatVars, inputVars, lockVars,
                   agentLockVars, msgVars, lossVars>>

\* create_session, lines 120-127: status.sessions = sessions.len(); Ok(id)
CreateStatus(c) ==
    /\ callerPc[c] = "create_status"
    /\ status' = [status EXCEPT !.sessions = HashMapLen(sessions)]
    /\ callerId' = [callerId EXCEPT ![c] = 0]
    /\ callerPc' = [callerPc EXCEPT ![c] = "idle"]
    /\ callerRet' = [callerRet EXCEPT ![c] = "Ok"]
    /\ UNCHANGED <<clockVars, sessions, uuid_count, ownerVars, sweepVars,
                   statusPc, histVars>>
    /\ UNCHANGED <<inbound, transportVars, captureVars, encoderVars,
                   rateVars, configVars, formatVars, inputVars, lockVars,
                   agentLockVars, msgVars, lossVars>>

\* destroy_session, lines 131-136: sessions.remove(session_id)
DestroyRemove(c) ==
    /\ ApiOpen
    /\ callerPc[c] = "idle"
    /\ \E id \in KnownIds :
         /\ sessions' = HashMapRemove(sessions, id)
         /\ callerId' = [callerId EXCEPT ![c] = id]
    /\ callerPc' = [callerPc EXCEPT ![c] = "destroy_status"]
    /\ callerRet' = [callerRet EXCEPT ![c] = "-"]
    /\ UNCHANGED <<clockVars, status, uuid_count, ownerVars, sweepVars,
                   statusPc, histVars>>
    /\ UNCHANGED <<inbound, transportVars, captureVars, encoderVars,
                   rateVars, configVars, formatVars, inputVars, lockVars,
                   agentLockVars, msgVars, lossVars>>

\* destroy_session, lines 138-144: status.sessions = sessions.len(); Ok(())
DestroyStatus(c) ==
    /\ callerPc[c] = "destroy_status"
    /\ status' = [status EXCEPT !.sessions = HashMapLen(sessions)]
    /\ destroyReturned' = destroyReturned \cup {callerId[c]}
    /\ callerId' = [callerId EXCEPT ![c] = 0]
    /\ callerPc' = [callerPc EXCEPT ![c] = "idle"]
    /\ callerRet' = [callerRet EXCEPT ![c] = "Ok"]
    /\ UNCHANGED <<clockVars, sessions, uuid_count, ownerVars, sweepVars,
                   statusPc, created, evicted>>
    /\ UNCHANGED <<inbound, transportVars, captureVars, encoderVars,
                   rateVars, configVars, formatVars, inputVars, lockVars,
                   agentLockVars, msgVars, lossVars>>

\* Agent::start: spawns the sweep task and the status task, keeps shutdown_tx
Start ==
    /\ agentPc = "new"
    /\ CallersIdle
    /\ agentPc' = "running"
    /\ sweepPc' = "tick"
    /\ statusPc' = "select"
    /\ shutdown_tx' = TRUE
    /\ UNCHANGED <<clockVars, registryVars, callerVars, stopIds, shutdown_chan,
                   sweepNow, sessions_to_remove, histVars>>
    /\ UNCHANGED <<inbound, transportVars, captureVars, encoderVars,
                   rateVars, configVars, formatVars, inputVars, lockVars,
                   agentLockVars, msgVars, lossVars>>

\* sweep, lines 184-189: interval.tick() completes, the task reads the clock
SweepTick ==
    /\ sweepPc = "tick"
    /\ sweepNow' = now
    /\ sweepPc' = "scan"
    /\ UNCHANGED <<clockVars, registryVars, callerVars, ownerVars,
                   sessions_to_remove, statusPc, histVars>>
    /\ UNCHANGED <<inbound, transportVars, captureVars, encoderVars,
                   rateVars, configVars, formatVars, inputVars, lockVars,
                   agentLockVars, msgVars, lossVars>>

\* sweep, lines 191-200: under the lock, collect the expired ids
SweepScan ==
    /\ sweepPc = "scan"
    /\ sessions_to_remove' = ExpiredIds(sessions, sweepNow)
    /\ sweepPc' = "remove"
    /\ UNCHANGED <<clockVars, registryVars, callerVars, ownerVars, sweepNow,
                   statusPc, histVars>>
    /\ UNCHANGED <<inbound, transportVars, captureVars, encoderVars,
                   rateVars, configVars, formatVars, inputVars, lockVars,
                   agentLockVars, msgVars, lossVars>>

\* sweep, lines 202-205: one locked removal per collected id
SweepRemove ==
    /\ sweepPc = "remove"
    /\ \E id \in sessions_to_remove :
         /\ sessions' = HashMapRemove(sessions, id)
         /\ sessions_to_remove' = sessions_to_remove \ {id}
         /\ evicted' = IF id \in DOMAIN sessions THEN evicted \cup {id} ELSE evicted
    /\ UNCHANGED <<clockVars, status, uuid_count, callerVars, ownerVars,
                   sweepPc, sweepNow, statusPc, created, destroyReturned>>
    /\ UNCHANGED <<inbound, transportVars, captureVars, encoderVars,
                   rateVars, configVars, formatVars, inputVars, lockVars,
                   agentLockVars, msgVars, lossVars>>

\* sweep: the for loop is exhausted, back to interval.tick().await
SweepLoop ==
    /\ sweepPc = "remove"
    /\ sessions_to_remove = {}
    /\ sweepPc' = "tick"
    /\ sweepNow' = 0
    /\ UNCHANGED <<clockVars, registryVars, callerVars, ownerVars,
                   sessions_to_remove, statusPc, histVars>>
    /\ UNCHANGED <<inbound, transportVars, captureVars, encoderVars,
                   rateVars, configVars, formatVars, inputVars, lockVars,
                   agentLockVars, msgVars, lossVars>>

\* a message of the client of a registered session arrives while the agent runs. The
\* only code that handles inbound messages is the transport's message task,
\* which updates a ConnectionInfo (transport.rs:192-207); no code of the Agent
\* runs, and the registry of sessions is left as it is.
InboundEvent ==
    /\ agentPc = "running"
    /\ \E id \in DOMAIN sessions : inbound' = id
    /\ UNCHANGED <<registryVars, callerVars, ownerVars, sweepVars, statusPc, histVars>>
    /\ UNCHANGED <<clockVars, transportVars, captureVars, encoderVars,
                   rateVars, configVars, formatVars, inputVars, lockVars,
                   agentLockVars, msgVars, lossVars>>

\* status task, lines 225-236: the interval branch of select!
StatusTick ==
    /\ statusPc = "select"
    /\ status' = [status EXCEPT !.refreshed = TRUE]
    /\ UNCHANGED <<clockVars, sessions, uuid_count, callerVars, ownerVars,
                   sweepVars, statusPc, histVars>>
    /\ UNCHANGED <<inbound, transportVars, captureVars, encoderVars,
                   rateVars, configVars, formatVars, inputVars, lockVars,
                   agentLockVars, msgVars, lossVars>>

\* status task, lines 237-239: shutdown_rx.recv() yields, the loop breaks
StatusShutdown ==
    /\ statusPc = "select"
    /\ shutdown_chan > 0
    /\ shutdown_chan' = 0
    /\ statusPc' = "done"
    /\ UNCHANGED <<clockVars, registryVars, callerVars, agentPc, stopIds,
                   shutdown_tx, sweepVars, histVars>>
    /\ UNCHANGED <<inbound, transportVars, captureVars, encoderVars,
                   rateVars, configVars, formatVars, inputVars, lockVars,
                   agentLockVars, msgVars, lossVars>>

\* Agent::stop -> stop_all_sessions, lines 248-251: snapshot of the keys
StopBegin ==
    /\ agentPc \in {"new", "running"}
    /\ CallersIdle
    /\ stopIds' = DOMAIN sessions
    /\ agentPc' = "stop_sessions"
    /\ UNCHANGED <<clockVars, registryVars, callerVars, shutdown_tx,
                   shutdown_chan, sweepVars, statusPc, histVars>>
    /\ UNCHANGED <<inbound, transportVars, captureVars, encoderVars,
                   rateVars, configVars, formatVars, inputVars, lockVars,
                   agentLockVars, msgVars, lossVars>>

\* stop_all_sessions, lines 253-255: destroy_session(id) for one snapshot id
StopDestroy ==
    /\ agentPc = "stop_sessions"
    /\ \E id \in stopIds :
         /\ sessions' = HashMapRemove(sessions, id)
         /\ status' = [status EXCEPT !.sessions = HashMapLen(HashMapRemove(sessions, id))]
         /\ stopIds' = stopIds \ {id}
         /\ destroyReturned' = destroyReturned \cup {id}
    /\ UNCHANGED <<clockVars, uuid_count, callerVars, agentPc, shutdown_tx,
                   shutdown_chan, sweepVars, statusPc, created, evicted>>
    /\ UNCHANGED <<inbound, transportVars, captureVars, encoderVars,
                   rateVars, configVars, formatVars, inputVars, lockVars,
                   agentLockVars, msgVars, lossVars>>

\* Agent::stop, lines 89-95: tx.send(()).await when shutdown_tx is Some (the
\* send completes when the buffer has room or the receiver is gone); Ok(())
StopSignal ==
    /\ agentPc = "stop_sessions"
    /\ stopIds = {}
    /\ IF shutdown_tx /\ statusPc = "select"
         THEN /\ shutdown_chan < 1
              /\ shutdown_chan' = shutdown_chan + 1
         ELSE UNCHANGED shutdown_chan
    /\ agentPc' = "stopped"
    /\ UNCHANGED <<clockVars, registryVars, callerVars, stopIds, shutdown_tx,
                   sweepVars, statusPc, histVars>>
    /\ UNCHANGED <<inbound, transportVars, captureVars, encoderVars,
                   rateVars, configVars, formatVars, inputVars, lockVars,
                   agentLockVars, msgVars, lossVars>>

(* ======================================================================= *)
(*                 agent.rs: the locks of the session API                  *)
(* ======================================================================= *)

\* the tasks that take Agent.sessions and Agent.status: two callers of the
\* &self methods, the sweep task and the status task
ATasks == {"t1", "t2", "sweep", "status"}

\* what each of them runs
AOps(t) ==
    CASE t = "sweep" -> {"sweep_scan", "sweep_remove"}
      [] t = "status" -> {"status_tick"}
      [] OTHER -> {"create_session", "destroy_session", "get_status"}

\* faulty variant: destroy_session counting the sessions first
LockOrder_Reversed(op) ==
    IF op = "destroy_session" THEN <<"sessions", "status">>
                              ELSE <<"status", "sessions">>

\* create_session lines 121-124, destroy_session lines 139-142: the status
\* guard is taken first, and self.sessions.lock() under it
LockOrder(op) == <<"status", "sessions">>

\* the lock() calls and guard drops of each operation, in program order
LockProgram(op) ==
    CASE op \in {"create_session", "destroy_session"} ->
            \* lines 115-118 / 132-137: the block that inserts or removes;
            \* lines 121-124 / 139-142: the temporary sessions guard is
            \* dropped at the end of the statement, the status guard at the
            \* end of the block
            << <<"lock", "sessions">>, <<"unlock", "sessions">>,
               <<"lock", LockOrder(op)[1]>>, <<"lock", LockOrder(op)[2]>>,
               <<"unlock", LockOrder(op)[2]>>, <<"unlock", LockOrder(op)[1]>> >>
      [] op \in {"get_status", "status_tick"} ->
            \* lines 158-160, lines 225-235
            << <<"lock", "status">>, <<"unlock", "status">> >>
      [] OTHER ->
            \* sweep, lines 192-200 (the scan) and line 204 (one removal)
            << <<"lock", "sessions">>, <<"unlock", "sessions">> >>

AgentLockInit ==
    /\ alock_holder = [l \in {"sessions", "status"} |-> "-"]
    /\ alOp = [t \in ATasks |-> "-"]
    /\ alPc = [t \in ATasks |-> 0]

\* the instruction a task is at (<<"-", "-">>: none)
ALInstr(t) ==
    IF alOp[t] # "-" /\ alPc[t] <= Len(LockProgram(alOp[t]))
      THEN LockProgram(alOp[t])[alPc[t]] ELSE <<"-", "-">>

\* a task enters one of its operations
ALCall(t) ==
    /\ alOp[t] = "-"
    /\ \E op \in AOps(t) : alOp' = [alOp EXCEPT ![t] = op]
    /\ alPc' = [alPc EXCEPT ![t] = 1]
    /\ UNCHANGED alock_holder
    /\ UNCHANGED <<clockVars, agentVars, transportVars, captureVars, encoderVars,
                   rateVars, configVars, formatVars, inputVars, lockVars,
                   msgVars, lossVars>>

\* Mutex::lock() returns once no task holds the guard
ALAcquire(t) ==
    /\ ALInstr(t)[1] = "lock"
    /\ alock_holder[ALInstr(t)[2]] = "-"
    /\ alock_holder' = [alock_holder EXCEPT ![ALInstr(t)[2]] = t]
    /\ alPc' = [alPc EXCEPT ![t] = @ + 1]
    /\ UNCHANGED alOp
    /\ UNCHANGED <<clockVars, agentVars, transportVars, captureVars, encoderVars,
                   rateVars, configVars, formatVars, inputVars, lockVars,
                   msgVars, lossVars>>

\* the guard goes out of scope
ALRelease(t) ==
    /\ ALInstr(t)[1] = "unlock"
    /\ alock_holder' = [alock_holder EXCEPT ![ALInstr(t)[2]] = "-"]
    /\ alPc' = [alPc EXCEPT ![t] = @ + 1]
    /\ UNCHANGED alOp
    /\ UNCHANGED <<clockVars, agentVars, transportVars, captureVars, encoderVars,
                   rateVars, configVars, formatVars, inputVars, lockVars,
                   msgVars, lossVars>>

\* the operation returns (the sweep and the status task: the next turn of
\* their loop)
ALReturn(t) ==
    /\ alOp[t] # "-"
    /\ alPc[t] > Len(LockProgram(alOp[t]))
    /\ alOp' = [alOp EXCEPT ![t] = "-"]
    /\ alPc' = [alPc EXCEPT ![t] = 0]
    /\ UNCHANGED alock_holder
    /\ UNCHANGED <<clockVars, agentVars, transportVars, captureVars, encoderVars,
                   rateVars, configVars, formatVars, inputVars, lockVars,
                   msgVars, lossVars>>

\* the lock a task is blocked on or about to take, and the locks it holds
ALWants(t) == IF ALInstr(t)[1] = "lock" THEN ALInstr(t)[2] ELSE "-"

ALHolds(t) == {l \in DOMAIN alock_holder : alock_holder[l] = t}

(* ======================================================================= *)
(*                             transport.rs                                *)
(* ======================================================================= *)

\* the strings a caller may pass as connection_id: the ids drawn so far, and
\* 0 for a string that is no connection's id
KnownConnIds == 0 .. conn_uuid_count

\* types.rs: enum ConnectionState
ConnectionState == {"Disconnected", "Connecting", "Connected", "Reconnecting", "Failed"}

\* faulty variant: an entry that starts out Connected
NewConnectionInfo_Connected(transport_type, client_id, t) ==
    [transport_type |-> transport_type, state |-> "Connected",
     client_id |-> client_id, start_time |-> t, last_activity |-> t]

\* faulty variant: an entry that starts out Failed
NewConnectionInfo_Failed(transport_type, client_id, t) ==
    [transport_type |-> transport_type, state |-> "Failed",
     client_id |-> client_id, start_time |-> t, last_activity |-> t]

\* the ConnectionInfo built by create_webrtc_connection (transport_type
\* "WebRTC") and create_websocket_connection ("WebSocket")
NewConnectionInfo(transport_type, client_id, t) ==
    [transport_type |-> transport_type, state |-> "Connecting",
     client_id |-> client_id, start_time |-> t, last_activity |-> t]

\* faulty variant: a send that reports success whatever the id
SendResults_Lenient(conns, peers, wss, id) == {"Ok"}

\* send_message with send_webrtc_message / send_websocket_message inlined: the
\* results the call can return, given the three maps
SendResults(conns, peers, wss, id) ==
    IF id \notin DOMAIN conns
      THEN {"Err: Connection not found"}
      ELSE IF conns[id].transport_type = "WebRTC"
        THEN IF id \in peers THEN {"Ok"} ELSE {"Err: WebRTC connection not found"}
        ELSE IF id \in wss
          THEN {"Ok", "Err: Failed to send WebSocket message"}
          ELSE {"Err: WebSocket connection not found"}

\* send_websocket_message line 238: the call reaches websocket.send(..)
AttemptsWrite(conns, wss, id) ==
    /\ id \in DOMAIN conns
    /\ conns[id].transport_type = "WebSocket"
    /\ id \in wss

\* faulty variant: the first Err ends the broadcast (as `?` would)
BroadcastGoesOn_Abort(res) == res = "Ok"

\* broadcast_message lines 124-126: an Err of send_message is logged and the
\* for loop goes on
BroadcastGoesOn(res) == TRUE

\* faulty variant: a clear that drops nothing
ClearConnections_Keep(conns) == conns

\* close_all_connections line 274: connections.clear()
ClearConnections(conns) == EmptyMap

\* TransportManager::get_connection_info
get_connection_info(connection_id) == HashMapGet(connections, connection_id)

Returned(op, id, client, res) ==
    [op |-> op, id |-> id, client |-> client, res |-> res]

TransportInit ==
    /\ connections = EmptyMap
    /\ webrtc_peer_connections = {}
    /\ websocket_connections = {}
    /\ conn_uuid_count = 0
    /\ tPc = [c \in TCallers |-> "idle"]
    /\ tId = [c \in TCallers |-> 0]
    /\ tInfo = [c \in TCallers |-> None]
    /\ bcastSnapshot = [c \in TCallers |-> {}]
    /\ bcastLeft = [c \in TCallers |-> {}]
    /\ bcastAttempts = [c \in TCallers |-> EmptyMap]
    /\ bcastErrs = [c \in TCallers |-> {}]
    /\ tRet = Returned("-", 0, "-", "-")
    /\ ws_written = << >>
    /\ message_tx = "None"
    /\ transport_handle = FALSE
    /\ msgTaskPc = "none"
    /\ tmPc = "idle"
    /\ tmCleared = 0
    /\ closed = {}

\* the owner is not inside start() or stop(), which take &mut self
TransportOpen == tmPc = "idle"

\* lock() returns: no task holds a guard of the Mutex
LockFree(l) == lock_holder[l] = "-"

\* the Mutex of a map, by the transport type of a connection
MapLock(transport_type) ==
    IF transport_type = "WebRTC" THEN "webrtc_peer_connections"
                                 ELSE "websocket_connections"

TCallersIdle == \A c \in TCallers : tPc[c] = "idle"

\* create_webrtc_connection / create_websocket_connection
CreateConnection(c, transport_type) ==
    /\ TransportOpen
    /\ tPc[c] = "idle"
    /\ LockFree("connections")
    /\ conn_uuid_count < MaxConnections
    /\ \E client \in ClientIds :
         /\ connections' = HashMapInsert(connections, NewV4(conn_uuid_count),
                               NewConnectionInfo(transport_type, client, now))
         /\ tRet' = Returned(transport_type, NewV4(conn_uuid_count), client, "Ok")
    /\ conn_uuid_count' = conn_uuid_count + 1
    /\ UNCHANGED <<clockVars, resourceVars, tPc, tId, tInfo, bcastVars,
                   ws_written, tmVars>>
    /\ UNCHANGED closed
    /\ UNCHANGED <<agentVars, captureVars, encoderVars, rateVars, configVars,
                   formatVars, inputVars, lockVars, agentLockVars, msgVars,
                   lossVars>>

create_webrtc_connection(c) == CreateConnection(c, "WebRTC")

create_websocket_connection(c) == CreateConnection(c, "WebSocket")

\* send_message(connection_id, message)
send_message(c) ==
    /\ TransportOpen
    /\ tPc[c] = "idle"
    /\ \E id \in KnownConnIds :
         /\ \E res \in SendResults(connections, webrtc_peer_connections,
                                   websocket_connections, id) :
              tRet' = Returned("send", id, "-", res)
         /\ ws_written' = IF AttemptsWrite(connections, websocket_connections, id)
                            THEN Append(ws_written, id) ELSE ws_written
    /\ UNCHANGED <<clockVars, connections, conn_uuid_count, resourceVars, tPc,
                   tId, tInfo, bcastVars, tmVars>>
    /\ UNCHANGED closed
    /\ UNCHANGED <<agentVars, captureVars, encoderVars, rateVars, configVars,
                   formatVars, inputVars, lockVars, agentLockVars, msgVars,
                   lossVars>>

\* broadcast_message, lines 119-121: snapshot of the registered ids
BroadcastBegin(c) ==
    /\ TransportOpen
    /\ tPc[c] = "idle"
    /\ tPc' = [tPc EXCEPT ![c] = "bcast"]
    /\ bcastSnapshot' = [bcastSnapshot EXCEPT ![c] = DOMAIN connections]
    /\ bcastLeft' = [bcastLeft EXCEPT ![c] = DOMAIN connections]
    /\ bcastAttempts' = [bcastAttempts EXCEPT ![c] = EmptyMap]
    /\ bcastErrs' = [bcastErrs EXCEPT ![c] = {}]
    /\ UNCHANGED <<clockVars, connections, conn_uuid_count, resourceVars, tId,
                   tInfo, tRet, ws_written, tmVars>>
    /\ UNCHANGED closed
    /\ UNCHANGED <<agentVars, captureVars, encoderVars, rateVars, configVars,
                   formatVars, inputVars, lockVars, agentLockVars, msgVars,
                   lossVars>>

\* broadcast_message, lines 123-127: send_message to the next snapshot id
BroadcastSend(c) ==
    /\ tPc[c] = "bcast"
    /\ \E id \in bcastLeft[c] :
         \E res \in SendResults(connections, webrtc_peer_connections,
                                websocket_connections, id) :
           /\ bcastAttempts' = [bcastAttempts EXCEPT ![c] =
                  HashMapInsert(@, id, IF id \in DOMAIN @ THEN @[id] + 1 ELSE 1)]
           /\ bcastErrs' = [bcastErrs EXCEPT ![c] = IF res = "Ok" THEN @ ELSE @ \cup {id}]
           /\ ws_written' = IF AttemptsWrite(connections, websocket_connections, id)
                              THEN Append(ws_written, id) ELSE ws_written
           /\ IF BroadcastGoesOn(res)
                THEN /\ bcastLeft' = [bcastLeft EXCEPT ![c] = @ \ {id}]
                     /\ UNCHANGED <<tPc, tRet>>
                ELSE /\ tPc' = [tPc EXCEPT ![c] = "idle"]
                     /\ tRet' = Returned("broadcast", 0, "-", res)
                     /\ UNCHANGED bcastLeft
    /\ UNCHANGED <<clockVars, connections, conn_uuid_count, resourceVars, tId,
                   tInfo, bcastSnapshot, tmVars>>
    /\ UNCHANGED closed
    /\ UNCHANGED <<agentVars, captureVars, encoderVars, rateVars, configVars,
                   formatVars, inputVars, lockVars, agentLockVars, msgVars,
                   lossVars>>

\* broadcast_message, line 129: Ok(())
BroadcastReturn(c) ==
    /\ tPc[c] = "bcast"
    /\ bcastLeft[c] = {}
    /\ tPc' = [tPc EXCEPT ![c] = "idle"]
    /\ tRet' = Returned("broadcast", 0, "-", "Ok")
    /\ bcastSnapshot' = [bcastSnapshot EXCEPT ![c] = {}]
    /\ bcastAttempts' = [bcastAttempts EXCEPT ![c] = EmptyMap]
    /\ bcastErrs' = [bcastErrs EXCEPT ![c] = {}]
    /\ UNCHANGED <<clockVars, connections, conn_uuid_count, resourceVars, tId,
                   tInfo, bcastLeft, ws_written, tmVars>>
    /\ UNCHANGED closed
    /\ UNCHANGED <<agentVars, captureVars, encoderVars, rateVars, configVars,
                   formatVars, inputVars, lockVars, agentLockVars, msgVars,
                   lossVars>>

\* close_connection, lines 331-336: look the id up; unknown: Ok(())
CloseLookup(c) ==
    /\ TransportOpen
    /\ tPc[c] = "idle"
    /\ LockFree("connections")
    /\ \E id \in KnownConnIds :
         IF get_connection_info(id) # None
           THEN /\ tPc' = [tPc EXCEPT ![c] = "close_resource"]
                /\ tId' = [tId EXCEPT ![c] = id]
                /\ tInfo' = [tInfo EXCEPT ![c] = get_connection_info(id)]
                /\ UNCHANGED tRet
           ELSE /\ tRet' = Returned("close_miss", id, "-", "Ok")
                /\ UNCHANGED <<tPc, tId, tInfo>>
    /\ UNCHANGED <<clockVars, connections, conn_uuid_count, resourceVars,
                   bcastVars, ws_written, tmVars, closed>>
    /\ UNCHANGED <<agentVars, captureVars, encoderVars, rateVars, configVars,
                   formatVars, inputVars, lockVars, agentLockVars, msgVars,
                   lossVars>>

\* close_connection, lines 337-354: remove (and close) the transport resource
CloseResource(c) ==
    /\ tPc[c] = "close_resource"
    /\ LockFree(MapLock(tInfo[c][1].transport_type))
    /\ IF tInfo[c][1].transport_type = "WebRTC"
         THEN /\ webrtc_peer_connections' = webrtc_peer_connections \ {tId[c]}
              /\ UNCHANGED websocket_connections
         ELSE /\ websocket_connections' = websocket_connections \ {tId[c]}
              /\ UNCHANGED webrtc_peer_connections
    /\ tPc' = [tPc EXCEPT ![c] = "close_registry"]
    /\ UNCHANGED <<clockVars, connections, conn_uuid_count, tId, tInfo,
                   bcastVars, tRet, ws_written, tmVars>>
    /\ UNCHANGED closed
    /\ UNCHANGED <<agentVars, captureVars, encoderVars, rateVars, configVars,
                   formatVars, inputVars, lockVars, agentLockVars, msgVars,
                   lossVars>>

\* close_connection, lines 356-364: connections.remove(connection_id); Ok(())
CloseRegistry(c) ==
    /\ tPc[c] = "close_registry"
    /\ LockFree("connections")
    /\ connections' = HashMapRemove(connections, tId[c])
    /\ tRet' = Returned("close", tId[c], "-", "Ok")
    /\ closed' = IF tId[c] \in DOMAIN connections THEN closed \cup {tId[c]} ELSE closed
    /\ tPc' = [tPc EXCEPT ![c] = "idle"]
    /\ tId' = [tId EXCEPT ![c] = 0]
    /\ tInfo' = [tInfo EXCEPT ![c] = None]
    /\ UNCHANGED <<clockVars, conn_uuid_count, resourceVars, bcastVars,
                   ws_written, tmVars>>
    /\ UNCHANGED <<agentVars, captureVars, encoderVars, rateVars, configVars,
                   formatVars, inputVars, lockVars, agentLockVars, msgVars,
                   lossVars>>

\* TransportManager::start -> start_message_processing: the channel, the
\* spawned task and its handle
TmStart ==
    /\ tmPc = "idle"
    /\ TCallersIdle
    /\ msgTaskPc = "none"
    /\ message_tx' = "internal"
    /\ transport_handle' = TRUE
    /\ msgTaskPc' = "recv"
    /\ UNCHANGED <<clockVars, connections, conn_uuid_count, resourceVars,
                   tCallerVars, bcastVars, ws_written, tmPc, tmCleared>>
    /\ UNCHANGED closed
    /\ UNCHANGED <<agentVars, captureVars, encoderVars, rateVars, configVars,
                   formatVars, inputVars, lockVars, agentLockVars, msgVars,
                   lossVars>>

\* TransportManager::set_message_sender: the stored sender is replaced (and
\* the one it replaces is dropped)
set_message_sender ==
    /\ tmPc = "idle"
    /\ TCallersIdle
    /\ message_tx' = "external"
    /\ UNCHANGED <<clockVars, connections, conn_uuid_count, resourceVars,
                   tCallerVars, bcastVars, ws_written, transport_handle,
                   msgTaskPc, tmPc, tmCleared, closed>>
    /\ UNCHANGED <<agentVars, captureVars, encoderVars, rateVars, configVars,
                   formatVars, inputVars, lockVars, agentLockVars, msgVars,
                   lossVars>>

\* message task, line 191: every sender of its channel is gone, recv() yields
\* None and the while let ends
MsgTaskEnd ==
    /\ msgTaskPc = "recv"
    /\ message_tx # "internal"
    /\ msgTaskPc' = "done"
    /\ UNCHANGED <<clockVars, connections, conn_uuid_count, resourceVars,
                   tCallerVars, bcastVars, ws_written, message_tx,
                   transport_handle, tmPc, tmCleared, closed>>
    /\ UNCHANGED <<agentVars, captureVars, encoderVars, rateVars, configVars,
                   formatVars, inputVars, lockVars, agentLockVars, msgVars,
                   lossVars>>

\* stop -> close_all_connections, lines 250-258: close every peer connection
\* (a failure is logged), peer_connections.clear()
TmStopWebrtc ==
    /\ tmPc = "idle"
    /\ TCallersIdle
    /\ webrtc_peer_connections' = {}
    /\ tmPc' = "stop_ws"
    /\ UNCHANGED <<clockVars, connections, conn_uuid_count,
                   websocket_connections, tCallerVars, bcastVars, ws_written,
                   message_tx, transport_handle, msgTaskPc, tmCleared>>
    /\ UNCHANGED closed
    /\ UNCHANGED <<agentVars, captureVars, encoderVars, rateVars, configVars,
                   formatVars, inputVars, lockVars, agentLockVars, msgVars,
                   lossVars>>

\* close_all_connections, lines 261-269: close every websocket (a failure is
\* logged), websocket_connections.clear()
TmStopWebsocket ==
    /\ tmPc = "stop_ws"
    /\ websocket_connections' = {}
    /\ tmPc' = "stop_registry"
    /\ UNCHANGED <<clockVars, connections, conn_uuid_count,
                   webrtc_peer_connections, tCallerVars, bcastVars, ws_written,
                   message_tx, transport_handle, msgTaskPc, tmCleared>>
    /\ UNCHANGED closed
    /\ UNCHANGED <<agentVars, captureVars, encoderVars, rateVars, configVars,
                   formatVars, inputVars, lockVars, agentLockVars, msgVars,
                   lossVars>>

\* close_all_connections, lines 272-277
TmStopRegistry ==
    /\ tmPc = "stop_registry"
    /\ connections' = ClearConnections(connections)
    /\ tmCleared' = HashMapLen(connections)
    /\ tmPc' = "stop_await"
    /\ UNCHANGED <<clockVars, conn_uuid_count, resourceVars, tCallerVars,
                   bcastVars, ws_written, message_tx, transport_handle,
                   msgTaskPc>>
    /\ UNCHANGED closed
    /\ UNCHANGED <<agentVars, captureVars, encoderVars, rateVars, configVars,
                   formatVars, inputVars, lockVars, agentLockVars, msgVars,
                   lossVars>>

\* stop, lines 86-92: transport_handle.take(); a handle that was there is
\* awaited, and stop returns once that task has ended
TmStopReturn ==
    /\ tmPc = "stop_await"
    /\ transport_handle => msgTaskPc = "done"
    /\ transport_handle' = FALSE
    /\ tmPc' = "stopped"
    /\ UNCHANGED <<clockVars, connections, conn_uuid_count, resourceVars,
                   tCallerVars, bcastVars, ws_written, message_tx, msgTaskPc,
                   tmCleared>>
    /\ UNCHANGED closed
    /\ UNCHANGED <<agentVars, captureVars, encoderVars, rateVars, configVars,
                   formatVars, inputVars, lockVars, agentLockVars, msgVars,
                   lossVars>>

\* the owner goes on after stop() returned
TmAfterStop ==
    /\ tmPc = "stopped"
    /\ tmPc' = "idle"
    /\ tmCleared' = 0
    /\ UNCHANGED <<clockVars, connections, conn_uuid_count, resourceVars,
                   tCallerVars, bcastVars, ws_written, message_tx,
                   transport_handle, msgTaskPc>>
    /\ UNCHANGED closed
    /\ UNCHANGED <<agentVars, captureVars, encoderVars, rateVars, configVars,
                   formatVars, inputVars, lockVars, agentLockVars, msgVars,
                   lossVars>>

(* ======================================================================= *)
(*                 transport.rs: the message-processing task               *)
(* ======================================================================= *)

\* an inbound Message as the task reads it: the connection it came in on is
\* known to whoever queued it, the task sees only the Message, whose data
\* may carry a "connection_id" (None: no such key, or not a string)
Messages ==
    [arrived_on : DOMAIN connections,
     connection_id : {None} \cup {Some(id) : id \in KnownConnIds}]

MsgInit == msg = None

\* message task, line 191: message_rx.recv().await yields a queued Message
MsgTaskRecv ==
    /\ msgTaskPc = "recv"
    /\ message_tx = "internal"
    /\ \E m \in Messages : msg' = Some(m)
    /\ msgTaskPc' = "process"
    /\ UNCHANGED <<clockVars, connections, conn_uuid_count, resourceVars,
                   tCallerVars, bcastVars, ws_written, message_tx,
                   transport_handle, tmPc, tmCleared, closed>>
    /\ UNCHANGED <<agentVars, captureVars, encoderVars, rateVars, configVars,
                   formatVars, inputVars, lockVars, agentLockVars, lossVars>>

\* message task, lines 193-206: with a string under data["connection_id"],
\* lock the registry and, if that id is registered, set its last_activity
\* to the clock; then back to recv()
MsgTaskProcess ==
    /\ msgTaskPc = "process"
    /\ LockFree("connections")
    /\ LET connection_id == msg[1].connection_id
       IN  connections' =
              IF connection_id # None /\ connection_id[1] \in DOMAIN connections
                THEN [connections EXCEPT ![connection_id[1]].last_activity = now]
                ELSE connections
    /\ msgTaskPc' = "recv"
    /\ UNCHANGED msg
    /\ UNCHANGED <<clockVars, conn_uuid_count, resourceVars, tCallerVars,
                   bcastVars, ws_written, message_tx, transport_handle, tmPc,
                   tmCleared, closed>>
    /\ UNCHANGED <<agentVars, captureVars, encoderVars, rateVars, configVars,
                   formatVars, inputVars, lockVars, agentLockVars, lossVars>>

(* ======================================================================= *)
(*                    transport.rs: the locks of a send                    *)
(* ======================================================================= *)

\* send_message, step by step: the await of send_*_message and the await of
\* websocket.send are separate positions of the caller, and the guards it
\* holds at each are recorded in lock_holder

LockInit ==
    /\ lock_holder = [l \in Locks |-> "-"]
    /\ sendPc = [s \in Senders |-> "idle"]
    /\ sendId = [s \in Senders |-> 0]
    /\ sendRet = [s \in Senders |-> "-"]

\* send_message, lines 100-113: self.connections.lock(), the guard bound to
\* `connections` for the rest of the body; an unknown id returns the Err (and
\* drops the guard), a known one goes on to the await of send_*_message
SendLookup(s) ==
    /\ TransportOpen
    /\ sendPc[s] = "idle"
    /\ LockFree("connections")
    /\ \E id \in KnownConnIds :
         IF id \in DOMAIN connections
           THEN /\ lock_holder' = [lock_holder EXCEPT !["connections"] = s]
                /\ sendPc' = [sendPc EXCEPT ![s] = "await_send"]
                /\ sendId' = [sendId EXCEPT ![s] = id]
                /\ UNCHANGED sendRet
           ELSE /\ sendRet' = [sendRet EXCEPT ![s] = "Err: Connection not found"]
                /\ UNCHANGED <<lock_holder, sendPc, sendId>>
    /\ UNCHANGED <<clockVars, agentVars, transportVars, captureVars, encoderVars,
                   rateVars, configVars, formatVars, inputVars, agentLockVars,
                   msgVars, lossVars>>

\* the future of send_message is polled.
\* At lines 105 / 108 it runs send_webrtc_message (lines 214-228) or
\* send_websocket_message (lines 232-245): the map is locked; with a stream
\* for the id the caller suspends in websocket.send(..).await, line 238,
\* holding the guard of the map too; otherwise the inner call returns, its
\* guard is dropped, send_message returns and drops the registry guard.
\* At line 238 the write has completed: both guards are dropped on return.
PollSend(s) ==
    /\ sendPc[s] \in {"await_send", "await_ws_send"}
    /\ LET id == sendId[s]
           map == MapLock(connections[id].transport_type)
       IN  IF sendPc[s] = "await_send"
             THEN /\ LockFree(map)
                  /\ IF AttemptsWrite(connections, websocket_connections, id)
                       THEN /\ lock_holder' = [lock_holder EXCEPT ![map] = s]
                            /\ sendPc' = [sendPc EXCEPT ![s] = "await_ws_send"]
                            /\ UNCHANGED sendRet
                       ELSE /\ \E res \in SendResults(connections,
                                              webrtc_peer_connections,
                                              websocket_connections, id) :
                                 sendRet' = [sendRet EXCEPT ![s] = res]
                            /\ lock_holder' =
                                  [lock_holder EXCEPT !["connections"] = "-"]
                            /\ sendPc' = [sendPc EXCEPT ![s] = "idle"]
             ELSE /\ \E res \in {"Ok", "Err: Failed to send WebSocket message"} :
                       sendRet' = [sendRet EXCEPT ![s] = res]
                  /\ lock_holder' = [lock_holder EXCEPT ![map] = "-",
                                                        !["connections"] = "-"]
                  /\ sendPc' = [sendPc EXCEPT ![s] = "idle"]
    /\ UNCHANGED sendId
    /\ UNCHANGED <<clockVars, agentVars, transportVars, captureVars, encoderVars,
                   rateVars, configVars, formatVars, inputVars, agentLockVars,
                   msgVars, lossVars>>

(* ======================================================================= *)
(*                              capture.rs                                 *)
(* ======================================================================= *)

TaskIds == 1 .. MaxStarts

\* CaptureConfig.video of Config::default()
config_video == TRUE

\* CaptureConfig.framerate of Config::default()
framerate == 30

\* the arguments the model passes to set_quality and set_framerate
Qualities == {"Medium", "High"}
Framerates == {framerate, 2 * framerate}

\* start_capture line 174: Duration::from_millis(1000 / config.framerate as u64)
frame_interval(f) == 1000 \div f

\* faulty variant: a capture error ends the loop
AfterCaptureError_Break == "done"

\* capture loop lines 199-202: after Err the task logs, sleeps 100 ms and
\* goes back to the while condition
AfterCaptureError == "check"

CaptureInit ==
    /\ is_capturing = FALSE
    /\ frame_tx = FALSE
    /\ capture_handle = 0
    /\ taskPc = [t \in TaskIds |-> "none"]
    /\ spawned = 0
    /\ frame_chan = 0
    /\ rx_open = TRUE
    /\ frames_captured = 0
    /\ capPc = "idle"
    /\ awaited = 0
    /\ capRet = "-"
    /\ config_quality = "Medium"
    /\ config_framerate = framerate
    /\ task_quality = [t \in TaskIds |-> "-"]
    /\ task_interval = [t \in TaskIds |-> 0]
    /\ capErr = 0

\* the task's clone of the configuration lives as long as the task: it is
\* dropped when the task moves to "done"
TaskLocals(t, pc) ==
    IF pc = "done"
      THEN /\ task_quality' = [task_quality EXCEPT ![t] = "-"]
           /\ task_interval' = [task_interval EXCEPT ![t] = 0]
      ELSE UNCHANGED <<task_quality, task_interval>>

\* the owner is not inside start() or stop(), which take &mut self
CaptureOpen == capPc \in {"idle", "started", "stopped"}

\* CaptureManager::set_frame_sender
set_frame_sender ==
    /\ CaptureOpen
    /\ ~frame_tx
    /\ frame_tx' = TRUE
    /\ UNCHANGED <<is_capturing, capture_handle, taskPc, spawned,
                   frame_chan, rx_open, frames_captured, capPc, awaited, capRet>>
    /\ UNCHANGED <<cfgVars, capErr>>
    /\ UNCHANGED <<clockVars, agentVars, transportVars, pacingVars, encoderVars,
                   rateVars, configVars, formatVars, inputVars, lockVars,
                   agentLockVars, msgVars, lossVars>>

\* CaptureManager::set_quality
set_quality ==
    /\ CaptureOpen
    /\ \E q \in Qualities : config_quality' = q
    /\ UNCHANGED <<is_capturing, frame_tx, capture_handle, taskPc, spawned,
                   frame_chan, rx_open, frames_captured, capPc, awaited, capRet>>
    /\ UNCHANGED <<config_framerate, task_quality, task_interval, capErr>>
    /\ UNCHANGED <<clockVars, agentVars, transportVars, pacingVars, encoderVars,
                   rateVars, configVars, formatVars, inputVars, lockVars,
                   agentLockVars, msgVars, lossVars>>

\* CaptureManager::set_framerate
set_framerate ==
    /\ CaptureOpen
    /\ \E f \in Framerates : config_framerate' = f
    /\ UNCHANGED <<is_capturing, frame_tx, capture_handle, taskPc, spawned,
                   frame_chan, rx_open, frames_captured, capPc, awaited, capRet>>
    /\ UNCHANGED <<config_quality, task_quality, task_interval, capErr>>
    /\ UNCHANGED <<clockVars, agentVars, transportVars, pacingVars, encoderVars,
                   rateVars, configVars, formatVars, inputVars, lockVars,
                   agentLockVars, msgVars, lossVars>>

\* CaptureManager::start with start_capture inlined: with video enabled and a
\* frame sender set, raise the flag, spawn a task, store its handle
CaptureStart ==
    /\ CaptureOpen
    /\ spawned < MaxStarts
    /\ IF config_video /\ frame_tx
         THEN /\ is_capturing' = TRUE
              /\ taskPc' = [taskPc EXCEPT ![spawned + 1] = "check"]
              /\ spawned' = spawned + 1
              /\ capture_handle' = spawned + 1
              /\ task_quality' = [task_quality EXCEPT ![spawned + 1] = config_quality]
              /\ task_interval' = [task_interval EXCEPT ![spawned + 1] =
                                      frame_interval(config_framerate)]
              /\ capRet' = "Ok"
              /\ capPc' = "started"
         ELSE /\ capRet' = IF config_video THEN "Err: Frame sender not set" ELSE "Ok"
              /\ capPc' = IF config_video THEN capPc ELSE "started"
              /\ UNCHANGED <<is_capturing, taskPc, spawned, capture_handle,
                             task_quality, task_interval>>
    /\ UNCHANGED <<frame_tx, frame_chan, rx_open, frames_captured,
                   awaited>>
    /\ UNCHANGED <<config_quality, config_framerate, capErr>>
    /\ UNCHANGED <<clockVars, agentVars, transportVars, pacingVars, encoderVars,
                   rateVars, configVars, formatVars, inputVars, lockVars,
                   agentLockVars, msgVars, lossVars>>

\* CaptureManager::stop, lines 87-93: clear the flag, take the stored handle
CaptureStopBegin ==
    /\ CaptureOpen
    /\ is_capturing' = FALSE
    /\ awaited' = capture_handle
    /\ capture_handle' = 0
    /\ capPc' = "stopping"
    /\ capRet' = "-"
    /\ UNCHANGED <<frame_tx, taskPc, spawned, frame_chan, rx_open,
                   frames_captured>>
    /\ UNCHANGED <<cfgVars, capErr>>
    /\ UNCHANGED <<clockVars, agentVars, transportVars, pacingVars, encoderVars,
                   rateVars, configVars, formatVars, inputVars, lockVars,
                   agentLockVars, msgVars, lossVars>>

\* CaptureManager::stop, lines 93-98: the awaited task has ended; Ok(())
CaptureStopReturn ==
    /\ capPc = "stopping"
    /\ awaited # 0 => taskPc[awaited] = "done"
    /\ awaited' = 0
    /\ capPc' = "stopped"
    /\ capRet' = "Ok"
    /\ UNCHANGED <<is_capturing, frame_tx, capture_handle, taskPc,
                   spawned, frame_chan, rx_open, frames_captured>>
    /\ UNCHANGED <<cfgVars, capErr>>
    /\ UNCHANGED <<clockVars, agentVars, transportVars, pacingVars, encoderVars,
                   rateVars, configVars, formatVars, inputVars, lockVars,
                   agentLockVars, msgVars, lossVars>>

\* capture task, lines 177-180: the while condition reads the flag
TaskCheck(t) ==
    /\ taskPc[t] = "check"
    /\ taskPc' = [taskPc EXCEPT ![t] = IF is_capturing THEN "body" ELSE "done"]
    /\ TaskLocals(t, IF is_capturing THEN "body" ELSE "done")
    /\ UNCHANGED <<is_capturing, frame_tx, capture_handle, spawned,
                   frame_chan, rx_open, frames_captured, capPc, awaited, capRet>>
    /\ UNCHANGED <<config_quality, config_framerate, capErr>>
    /\ UNCHANGED <<clockVars, agentVars, transportVars, pacingVars, encoderVars,
                   rateVars, configVars, formatVars, inputVars, lockVars,
                   agentLockVars, msgVars, lossVars>>

\* capture task, lines 199-202: the interval has elapsed and capture_frame
\* returned Err: log, sleep 100 ms, then test the flag again
TaskCaptureFails(t) ==
    /\ taskPc[t] = "body"
    /\ capErr < MaxCaptureErrs
    /\ capErr' = capErr + 1
    /\ taskPc' = [taskPc EXCEPT ![t] = AfterCaptureError]
    /\ TaskLocals(t, AfterCaptureError)
    /\ UNCHANGED <<is_capturing, frame_tx, capture_handle, spawned,
                   frame_chan, rx_open, frames_captured, capPc, awaited, capRet>>
    /\ UNCHANGED <<config_quality, config_framerate>>
    /\ UNCHANGED <<clockVars, agentVars, transportVars, pacingVars, encoderVars,
                   rateVars, configVars, formatVars, inputVars, lockVars,
                   agentLockVars, msgVars, lossVars>>

\* capture task, lines 204-206: the interval has not elapsed: sleep 1 ms, then
\* test the flag again
TaskSleep(t) ==
    /\ taskPc[t] = "body"
    /\ taskPc' = [taskPc EXCEPT ![t] = "check"]
    /\ UNCHANGED <<is_capturing, frame_tx, capture_handle, spawned,
                   frame_chan, rx_open, frames_captured, capPc, awaited, capRet>>
    /\ UNCHANGED <<cfgVars, capErr>>
    /\ UNCHANGED <<clockVars, agentVars, transportVars, pacingVars, encoderVars,
                   rateVars, configVars, formatVars, inputVars, lockVars,
                   agentLockVars, msgVars, lossVars>>

\* capture task, lines 182-184: the interval has elapsed and capture_frame
\* returned Ok(frame)
TaskCapture(t) ==
    /\ taskPc[t] = "body"
    /\ taskPc' = [taskPc EXCEPT ![t] = "send"]
    /\ UNCHANGED <<is_capturing, frame_tx, capture_handle, spawned,
                   frame_chan, rx_open, frames_captured, capPc, awaited, capRet>>
    /\ UNCHANGED <<cfgVars, capErr>>
    /\ UNCHANGED <<clockVars, agentVars, transportVars, pacingVars, encoderVars,
                   rateVars, configVars, formatVars, inputVars, lockVars,
                   agentLockVars, msgVars, lossVars>>

\* capture task, lines 185-197: frame_tx.send(frame).await completes with room
\* in the channel, then the metrics are updated
TaskSend(t) ==
    /\ taskPc[t] = "send"
    /\ rx_open
    /\ frame_chan < FrameChanCap
    /\ frame_chan' = frame_chan + 1
    /\ frames_captured' = IF frames_captured < MaxFrames THEN frames_captured + 1
                          ELSE frames_captured
    /\ taskPc' = [taskPc EXCEPT ![t] = "check"]
    /\ UNCHANGED <<is_capturing, frame_tx, capture_handle, spawned,
                   rx_open, capPc, awaited, capRet>>
    /\ UNCHANGED <<cfgVars, capErr>>
    /\ UNCHANGED <<clockVars, agentVars, transportVars, pacingVars, encoderVars,
                   rateVars, configVars, formatVars, inputVars, lockVars,
                   agentLockVars, msgVars, lossVars>>

\* capture task, lines 185-188: the receiver is gone, send fails, break
TaskSendFails(t) ==
    /\ taskPc[t] = "send"
    /\ ~rx_open
    /\ taskPc' = [taskPc EXCEPT ![t] = "done"]
    /\ TaskLocals(t, "done")
    /\ UNCHANGED <<is_capturing, frame_tx, capture_handle, spawned,
                   frame_chan, rx_open, frames_captured, capPc, awaited, capRet>>
    /\ UNCHANGED <<config_quality, config_framerate, capErr>>
    /\ UNCHANGED <<clockVars, agentVars, transportVars, pacingVars, encoderVars,
                   rateVars, configVars, formatVars, inputVars, lockVars,
                   agentLockVars, msgVars, lossVars>>

\* the holder of the receiving end takes a frame
ReceiveFrame ==
    /\ rx_open
    /\ frame_chan > 0
    /\ frame_chan' = frame_chan - 1
    /\ UNCHANGED <<is_capturing, frame_tx, capture_handle, taskPc,
                   spawned, rx_open, frames_captured, capPc, awaited, capRet>>
    /\ UNCHANGED <<cfgVars, capErr>>
    /\ UNCHANGED <<clockVars, agentVars, transportVars, pacingVars, encoderVars,
                   rateVars, configVars, formatVars, inputVars, lockVars,
                   agentLockVars, msgVars, lossVars>>

\* the holder of the receiving end drops it
DropReceiver ==
    /\ rx_open
    /\ frame_tx
    /\ rx_open' = FALSE
    /\ frame_chan' = 0
    /\ UNCHANGED <<is_capturing, frame_tx, capture_handle, taskPc,
                   spawned, frames_captured, capPc, awaited, capRet>>
    /\ UNCHANGED <<cfgVars, capErr>>
    /\ UNCHANGED <<clockVars, agentVars, transportVars, pacingVars, encoderVars,
                   rateVars, configVars, formatVars, inputVars, lockVars,
                   agentLockVars, msgVars, lossVars>>

(* ------------------- the capture loop with its timing ------------------ *)

\* the frame interval of a task started with the default configuration
PaceInterval == frame_interval(framerate)

\* a duration one millisecond later, counted up to the frame interval
Later(d) == IF d < PaceInterval THEN d + 1 ELSE PaceInterval

\* start_capture lines 173-175: the task starts with last_frame_time = now
PacingInit ==
    /\ pPc = "iter"
    /\ pElapsed = 0
    /\ pSinceNow = 0
    /\ pSlept = FALSE
    /\ pDelivered = FALSE
    /\ pSinceDelivery = 0

\* capture loop lines 177-182 and 204-206: the flag is set; read `now`,
\* compare with last_frame_time; capture when the interval has elapsed,
\* otherwise sleep 1 ms
PaceIter ==
    /\ pPc = "iter"
    /\ pSinceNow' = 0
    /\ pSlept' = FALSE
    /\ pPc' = IF pElapsed >= PaceInterval THEN "capture" ELSE "sleep"
    /\ UNCHANGED <<pElapsed, pDelivered, pSinceDelivery>>
    /\ UNCHANGED <<clockVars, agentVars, transportVars, managerVars, encoderVars,
                   rateVars, configVars, formatVars, inputVars, lockVars,
                   agentLockVars, msgVars, lossVars>>

\* capture loop line 205: sleep(1 ms) is over
PaceSleep ==
    /\ pPc = "sleep"
    /\ pSlept
    /\ pPc' = "iter"
    /\ UNCHANGED <<pElapsed, pSinceNow, pSlept, pDelivered, pSinceDelivery>>
    /\ UNCHANGED <<clockVars, agentVars, transportVars, managerVars, encoderVars,
                   rateVars, configVars, formatVars, inputVars, lockVars,
                   agentLockVars, msgVars, lossVars>>

\* capture loop lines 183-184: capture_frame(..).await returns Ok(frame)
PaceCapture ==
    /\ pPc = "capture"
    /\ pPc' = "send"
    /\ UNCHANGED <<pElapsed, pSinceNow, pSlept, pDelivered, pSinceDelivery>>
    /\ UNCHANGED <<clockVars, agentVars, transportVars, managerVars, encoderVars,
                   rateVars, configVars, formatVars, inputVars, lockVars,
                   agentLockVars, msgVars, lossVars>>

\* capture loop lines 185-197: the sink takes the frame, the metrics are
\* updated, last_frame_time = now
PaceSend ==
    /\ pPc = "send"
    /\ pDelivered' = TRUE
    /\ pSinceDelivery' = 0
    /\ pElapsed' = pSinceNow
    /\ pPc' = "iter"
    /\ UNCHANGED <<pSinceNow, pSlept>>
    /\ UNCHANGED <<clockVars, agentVars, transportVars, managerVars, encoderVars,
                   rateVars, configVars, formatVars, inputVars, lockVars,
                   agentLockVars, msgVars, lossVars>>

\* one millisecond passes
PaceTick ==
    /\ pElapsed' = Later(pElapsed)
    /\ pSinceNow' = Later(pSinceNow)
    /\ pSinceDelivery' = Later(pSinceDelivery)
    /\ pSlept' = (pSlept \/ pPc = "sleep")
    /\ UNCHANGED <<pPc, pDelivered>>
    /\ UNCHANGED <<clockVars, agentVars, transportVars, managerVars, encoderVars,
                   rateVars, configVars, formatVars, inputVars, lockVars,
                   agentLockVars, msgVars, lossVars>>

(* ------------- the capture loop over one second of deliveries ---------- *)

\* the time capture_frame may take, and the time frame_tx.send may wait for
\* room in the channel, in milliseconds
CaptureLatencies == {0, 1}

SendLatencies == {0, SinkDelayMs}

\* capture loop line 193: fps = 1.0 / frame_interval.as_secs_f64(), in whole
\* frames per second
NominalFps(interval) == 1000 \div interval

\* the window ends WindowMs after the task was spawned
UpTo(t) == IF t < WindowMs THEN t ELSE WindowMs

\* start_capture lines 173-175: the window begins as the task is spawned,
\* with last_frame_time = now and the metrics of Metrics::default()
RateInit ==
    /\ wTime = 0
    /\ wLast = 0
    /\ wDelivered = 0
    /\ fps = 0

\* capture loop lines 181-182 and 204-206: the 1 ms sleeps until the frame
\* interval has elapsed since last_frame_time
RateWait ==
    /\ wTime < WindowMs
    /\ wTime - wLast < PaceInterval
    /\ wTime' = UpTo(wLast + PaceInterval)
    /\ UNCHANGED <<wLast, wDelivered, fps>>
    /\ UNCHANGED <<clockVars, agentVars, transportVars, captureVars,
                   encoderVars, configVars, formatVars, inputVars, lockVars,
                   agentLockVars, msgVars, lossVars>>

\* capture loop lines 183-198: capture_frame returns Ok after c ms, the send
\* completes s ms later; the metrics are written; last_frame_time = now, the
\* instant read before the capture
RateDeliver ==
    /\ wTime < WindowMs
    /\ wTime - wLast >= PaceInterval
    /\ \E c \in CaptureLatencies, s \in SendLatencies :
         /\ wTime' = UpTo(wTime + c + s)
         /\ IF wTime + c + s < WindowMs
              THEN /\ wDelivered' = wDelivered + 1
                   /\ fps' = NominalFps(PaceInterval)
              ELSE UNCHANGED <<wDelivered, fps>>
    /\ wLast' = wTime
    /\ UNCHANGED <<clockVars, agentVars, transportVars, captureVars,
                   encoderVars, configVars, formatVars, inputVars, lockVars,
                   agentLockVars, msgVars, lossVars>>

\* capture loop lines 199-202: capture_frame returns Err after c ms; the
\* task logs it and sleeps 100 ms
RateCaptureFails ==
    /\ wTime < WindowMs
    /\ wTime - wLast >= PaceInterval
    /\ \E c \in CaptureLatencies : wTime' = UpTo(wTime + c + ErrorSleepMs)
    /\ UNCHANGED <<wLast, wDelivered, fps>>
    /\ UNCHANGED <<clockVars, agentVars, transportVars, captureVars,
                   encoderVars, configVars, formatVars, inputVars, lockVars,
                   agentLockVars, msgVars, lossVars>>

(* ======================================================================= *)
(*                              encoder.rs                                 *)
(* ======================================================================= *)

\* the frame rates a CaptureConfig given to VideoEncoder::new may hold
EncFramerates == 0 .. MaxFramerate

\* the lengths of the rgba_data given to encode_frame
RgbaLens == 0 .. MaxRgbaLen

\* types.rs: enum Quality, and the position of each variant in it
Quality == {"Low", "Medium", "High", "Ultra"}

QualityRank(q) ==
    CASE q = "Low" -> 0
      [] q = "Medium" -> 1
      [] q = "High" -> 2
      [] q = "Ultra" -> 3

\* faulty variant: Medium and High exchanged
get_bitrate_Swapped(q) ==
    CASE q = "Low" -> 500000
      [] q = "Medium" -> 3000000
      [] q = "High" -> 1500000
      [] q = "Ultra" -> 6000000

\* VideoEncoder::get_bitrate, in bits per second
get_bitrate(q) ==
    CASE q = "Low" -> 500000
      [] q = "Medium" -> 1500000
      [] q = "High" -> 3000000
      [] q = "Ultra" -> 6000000

\* faulty variant: a keyframe one frame late
KeyframeDue_Late(count, last, rate) == count - last > rate * 2

\* encode_frame line 50: the keyframe test, on the incremented frame_count
KeyframeDue(count, last, rate) == count - last >= rate * 2

\* rgba_to_yuv420 lines 96-104: the luma loop reads rgba[i], rgba[i + 1] and
\* rgba[i + 2] for i = 0, 4, 8, .. below rgba.len(); an index at or beyond
\* rgba.len() panics. (The chroma loop tests idx + 3 < rgba.len() first.)
LumaLoopPanics(len) ==
    \E i \in 0 .. len : /\ i % 4 = 0
                        /\ i < len
                        /\ i + 2 >= len

\* rgba_to_yuv420: the number of bytes pushed for an input of len bytes that
\* does not panic: one per turn of the luma loop (lines 96-104), two per
\* turn of the chroma loops that passes `idx + 3 < rgba.len()` (lines 107-123)
rgba_to_yuv420_len(len, width, height) ==
    Cardinality({i \in 0 .. len - 1 : i % 4 = 0})
       + 2 * Cardinality({p \in (0 .. width - 1) \X (0 .. height - 1) :
                             /\ p[1] % 2 = 0
                             /\ p[2] % 2 = 0
                             /\ (p[2] * width + p[1]) * 4 + 3 < len})

\* the even frame dimensions for which the size of the output is computed
EvenDims == {d \in 1 .. MaxDim : d % 2 = 0}

\* encode_frame lines 55-65: Err(EncoderNotInitialized) when the Option is
\* None, else the conversion, which returns the planes or panics
EncodeResult(enc, len) ==
    IF enc = "None" THEN "Err: EncoderNotInitialized"
    ELSE IF LumaLoopPanics(len) THEN "panic" ELSE "Ok"

EncoderInit ==
    /\ encPc = "none"
    /\ enc_quality = "-"
    /\ enc_framerate = 0
    /\ encoder = "None"
    /\ frame_count = 0
    /\ last_keyframe = 0
    /\ encRet = [op |-> "-", res |-> "-"]
    /\ bitrate = 0
    /\ initCalled = FALSE
    /\ initOk = FALSE
    /\ shutSinceInit = FALSE

\* VideoEncoder::new(config)
EncoderNew ==
    /\ encPc = "none"
    /\ encPc' = "ready"
    /\ enc_quality' \in Quality
    /\ enc_framerate' \in EncFramerates
    /\ encoder' = "None"
    /\ frame_count' = 0
    /\ last_keyframe' = 0
    /\ encRet' = [op |-> "new", res |-> "Ok"]
    /\ UNCHANGED <<bitrate, encHistVars>>
    /\ UNCHANGED <<clockVars, agentVars, transportVars, captureVars,
                   rateVars, configVars, formatVars, inputVars, lockVars,
                   agentLockVars, msgVars, lossVars>>

\* initialize(): Encoder::with_config succeeds and the encoder is stored
EncoderInitialize ==
    /\ encPc = "ready"
    /\ encoder' = "Some"
    /\ encRet' = [op |-> "initialize", res |-> "Ok"]
    /\ initCalled' = TRUE
    /\ initOk' = TRUE
    /\ shutSinceInit' = FALSE
    /\ UNCHANGED <<encPc, enc_quality, enc_framerate, frame_count,
                   last_keyframe, bitrate>>
    /\ UNCHANGED <<clockVars, agentVars, transportVars, captureVars,
                   rateVars, configVars, formatVars, inputVars, lockVars,
                   agentLockVars, msgVars, lossVars>>

\* initialize(), line 35: Encoder::with_config fails and `?` returns the
\* error; the stored Option is not touched
EncoderInitializeFails ==
    /\ encPc = "ready"
    /\ encRet' = [op |-> "initialize", res |-> "Err: OpenH264"]
    /\ initCalled' = TRUE
    /\ shutSinceInit' = FALSE
    /\ UNCHANGED <<encPc, enc_quality, enc_framerate, encoder, frame_count,
                   last_keyframe, bitrate, initOk>>
    /\ UNCHANGED <<clockVars, agentVars, transportVars, captureVars,
                   rateVars, configVars, formatVars, inputVars, lockVars,
                   agentLockVars, msgVars, lossVars>>

\* encode_frame(rgba_data), and encode_frame_to_frame(rgba_data), which calls
\* it and wraps an Ok in a Frame. frame_count is a u64; the calls are counted
\* up to MaxEncodes. A panic unwinds the caller, the encoder with it.
EncodeFrame(op, len) ==
    /\ encPc = "ready"
    /\ frame_count < MaxEncodes
    /\ frame_count' = frame_count + 1
    /\ last_keyframe' = IF KeyframeDue(frame_count + 1, last_keyframe, enc_framerate)
                          THEN frame_count + 1 ELSE last_keyframe
    /\ encRet' = [op |-> op, res |-> EncodeResult(encoder, len)]
    /\ encPc' = IF EncodeResult(encoder, len) = "panic" THEN "panicked" ELSE "ready"
    /\ UNCHANGED <<enc_quality, enc_framerate, encoder, bitrate, encHistVars>>
    /\ UNCHANGED <<clockVars, agentVars, transportVars, captureVars,
                   rateVars, configVars, formatVars, inputVars, lockVars,
                   agentLockVars, msgVars, lossVars>>

encode_frame == \E len \in RgbaLens : EncodeFrame("encode_frame", len)

encode_frame_to_frame == \E len \in RgbaLens : EncodeFrame("encode_frame_to_frame", len)

\* get_bitrate(): the bitrate of the configured quality
EncoderGetBitrate ==
    /\ encPc = "ready"
    /\ bitrate' = get_bitrate(enc_quality)
    /\ UNCHANGED <<encPc, enc_quality, enc_framerate, encoder, frame_count,
                   last_keyframe, encRet, encHistVars>>
    /\ UNCHANGED <<clockVars, agentVars, transportVars, captureVars,
                   rateVars, configVars, formatVars, inputVars, lockVars,
                   agentLockVars, msgVars, lossVars>>

\* shutdown()
EncoderShutdown ==
    /\ encPc = "ready"
    /\ encoder' = "None"
    /\ encRet' = [op |-> "shutdown", res |-> "Ok"]
    /\ initOk' = FALSE
    /\ shutSinceInit' = TRUE
    /\ UNCHANGED <<encPc, enc_quality, enc_framerate, frame_count,
                   last_keyframe, bitrate, initCalled>>
    /\ UNCHANGED <<clockVars, agentVars, transportVars, captureVars,
                   rateVars, configVars, formatVars, inputVars, lockVars,
                   agentLockVars, msgVars, lossVars>>

(* ======================================================================= *)
(*                              config.rs                                  *)
(* ======================================================================= *)

\* Config::default(), the fields that validate reads
DefaultConfig ==
    [server |-> [port |-> 8080, max_connections |-> 10],
     auth |-> [token |-> None, require_auth |-> TRUE,
               session_timeout |-> session_timeout],
     capture |-> [framerate |-> framerate],
     input |-> [mouse_sensitivity |-> 1, keyboard_repeat_delay |-> 500],
     transport |-> [webrtc_enabled |-> TRUE, websocket_enabled |-> TRUE,
                    max_bitrate |-> 2000000],
     security |-> [rate_limit_requests |-> 100, rate_limit_window |-> 60000],
     logging |-> [max_file_size |-> 10 * 1024 * 1024, max_files |-> 5]]

\* the configurations tried: in every field the default or a value on the
\* other side of the test that validate makes on it
Configs ==
    [server : [port : {0, 8080}, max_connections : {0, 10}],
     auth : [token : {None, Some("secret")}, require_auth : BOOLEAN,
             session_timeout : {0, session_timeout}],
     capture : [framerate : {0, framerate, MaxValidFramerate, MaxValidFramerate + 1}],
     input : [mouse_sensitivity : {0, 1}, keyboard_repeat_delay : {0, 500}],
     transport : [webrtc_enabled : BOOLEAN, websocket_enabled : BOOLEAN,
                  max_bitrate : {0, 2000000}],
     security : [rate_limit_requests : {0, 100}, rate_limit_window : {0, 60000}],
     logging : [max_file_size : {0, 10 * 1024 * 1024}, max_files : {0, 5}]]

\* Config::validate: the first failing test decides the error
validate(c) ==
    IF c.server.port = 0 THEN "Err: Config: Port cannot be 0"
    ELSE IF c.server.max_connections = 0 THEN "Err: Config: Max connections cannot be 0"
    ELSE IF c.auth.require_auth /\ c.auth.token = None
      THEN "Err: Config: Token required when authentication is enabled"
    ELSE IF c.auth.session_timeout = 0 THEN "Err: Config: Session timeout cannot be 0"
    ELSE IF c.capture.framerate = 0 THEN "Err: Config: Framerate cannot be 0"
    ELSE IF c.capture.framerate > MaxValidFramerate
      THEN "Err: Config: Framerate cannot exceed 120"
    ELSE IF c.input.mouse_sensitivity <= 0
      THEN "Err: Config: Mouse sensitivity must be positive"
    ELSE IF c.input.keyboard_repeat_delay = 0
      THEN "Err: Config: Keyboard repeat delay cannot be 0"
    ELSE IF ~c.transport.webrtc_enabled /\ ~c.transport.websocket_enabled
      THEN "Err: Config: At least one transport must be enabled"
    ELSE IF c.transport.max_bitrate = 0 THEN "Err: Config: Max bitrate cannot be 0"
    ELSE IF c.security.rate_limit_requests = 0
      THEN "Err: Config: Rate limit requests cannot be 0"
    ELSE IF c.security.rate_limit_window = 0
      THEN "Err: Config: Rate limit window cannot be 0"
    ELSE IF c.logging.max_file_size = 0 THEN "Err: Config: Max file size cannot be 0"
    ELSE IF c.logging.max_files = 0 THEN "Err: Config: Max files cannot be 0"
    ELSE "Ok"

ConfigErrors == {"Err: Config: Port cannot be 0",
                 "Err: Config: Max connections cannot be 0",
                 "Err: Config: Token required when authentication is enabled",
                 "Err: Config: Session timeout cannot be 0",
                 "Err: Config: Framerate cannot be 0",
                 "Err: Config: Framerate cannot exceed 120",
                 "Err: Config: Mouse sensitivity must be positive",
                 "Err: Config: Keyboard repeat delay cannot be 0",
                 "Err: Config: At least one transport must be enabled",
                 "Err: Config: Max bitrate cannot be 0",
                 "Err: Config: Rate limit requests cannot be 0",
                 "Err: Config: Rate limit window cannot be 0",
                 "Err: Config: Max file size cannot be 0",
                 "Err: Config: Max files cannot be 0"}

\* no Config has been built yet
ConfigInit ==
    /\ conf = None
    /\ validateRet = "-"

\* a Config is built: Config::default() with any of its fields reassigned
ConfigBuild ==
    /\ conf = None
    /\ \E c \in Configs : conf' = Some(c)
    /\ validateRet' = "-"
    /\ UNCHANGED <<clockVars, agentVars, transportVars, captureVars, encoderVars,
                   rateVars, formatVars, inputVars, lockVars, agentLockVars,
                   msgVars, lossVars>>

\* config.validate()
ConfigValidate ==
    /\ conf # None
    /\ validateRet' = validate(conf[1])
    /\ UNCHANGED conf
    /\ UNCHANGED <<clockVars, agentVars, transportVars, captureVars, encoderVars,
                   rateVars, formatVars, inputVars, lockVars, agentLockVars,
                   msgVars, lossVars>>

(* ======================================================================= *)
(*                               utils.rs                                  *)
(* ======================================================================= *)

\* format_bytes lines 34-36 and format_bitrate lines 47-49: the units
KB == 1024
MB == KB * 1024
GB == MB * 1024

KBPS == 1000
MBPS == KBPS * 1000
GBPS == MBPS * 1000

\* the arguments tried: the values up to MaxOffset, and those within
\* MaxOffset of a unit
NearUnits(units) ==
    (0 .. MaxOffset)
       \cup {u + d : u \in units, d \in (0 - MaxOffset) .. MaxOffset}

\* format!("{:.1}", v as f64 / unit as f64): the quotient rounded to one
\* decimal, a tie going to the even digit (the quotients of the arguments
\* tried are exact in f64 or not ties)
Tenths(v, unit) ==
    LET t == (v * 10) \div unit
        r == (v * 10) % unit
    IN  IF 2 * r > unit \/ (2 * r = unit /\ t % 2 = 1) THEN t + 1 ELSE t

Fixed1(v, unit) ==
    LET whole == v \div unit
        t == whole * 10 + Tenths(v % unit, unit)
    IN  ToString(t \div 10) \o "." \o ToString(t % 10)

\* the match of format_bytes and format_bitrate: the arms are tried in
\* order, and the ranges 0..=k, k..=m, m..=g include both their ends
Scaled(v, k, m, g, names) ==
    IF 0 <= v /\ v <= k THEN ToString(v) \o names[1]
    ELSE IF k <= v /\ v <= m THEN Fixed1(v, k) \o names[2]
    ELSE IF m <= v /\ v <= g THEN Fixed1(v, m) \o names[3]
    ELSE Fixed1(v, g) \o names[4]

format_bytes(bytes) == Scaled(bytes, KB, MB, GB, <<" B", " KB", " MB", " GB">>)

format_bitrate(bps) ==
    Scaled(bps, KBPS, MBPS, GBPS, <<" bps", " Kbps", " Mbps", " Gbps">>)

FormatInit ==
    /\ fmtOp = "-"
    /\ fmtArg = 0
    /\ fmtRet = "-"

\* a call of format_bytes
FormatBytes ==
    /\ \E bytes \in NearUnits({KB, MB, GB}) :
         /\ fmtArg' = bytes
         /\ fmtRet' = format_bytes(bytes)
    /\ fmtOp' = "format_bytes"
    /\ UNCHANGED <<clockVars, agentVars, transportVars, captureVars, encoderVars,
                   rateVars, configVars, inputVars, lockVars, agentLockVars,
                   msgVars, lossVars>>

\* a call of format_bitrate
FormatBitrate ==
    /\ \E bps \in NearUnits({KBPS, MBPS, GBPS}) :
         /\ fmtArg' = bps
         /\ fmtRet' = format_bitrate(bps)
    /\ fmtOp' = "format_bitrate"
    /\ UNCHANGED <<clockVars, agentVars, transportVars, captureVars, encoderVars,
                   rateVars, configVars, inputVars, lockVars, agentLockVars,
                   msgVars, lossVars>>

(* ======================================================================= *)
(*                    utils.rs: calculate_packet_loss                      *)
(* ======================================================================= *)

\* a u32 as two 16-bit halves, value hi * 2^16 + lo (2^32 itself is beyond
\* the integers of the checker)
Half == 65536

Wide(hi, lo) == [hi |-> hi + lo \div Half, lo |-> lo % Half]

\* `sent - received` on u32 for arguments up to MaxPackets: the difference,
\* or, below zero, the difference plus 2^32 (wrapping arithmetic)
wrapping_sub(a, b) ==
    IF a >= b THEN Wide(0, a - b) ELSE Wide(Half - 1, Half - (b - a))

\* (d as f32 / sent as f32) * 100.0, its integer part: d * 100 divided by
\* sent, digit by digit in base 2^16 (the rounding of f32 moves the result
\* by less than one part in 2^23)
Percent(d, sent) ==
    LET a == d.hi * 100
        b == d.lo * 100
    IN  Wide(a \div sent, ((a % sent) * Half + b) \div sent)

\* what a call can do: return a value, or panic. Without overflow checks
\* (release profile) the subtraction wraps; with them (debug profile)
\* `sent - received` panics when received > sent
Returns(v) == [panic |-> FALSE, value |-> v]

Panics == [panic |-> TRUE, value |-> Wide(0, 0)]

calculate_packet_loss(sent, received) ==
    IF sent = 0
      THEN {Returns(Wide(0, 0))}
      ELSE IF received > sent
        THEN {Returns(Percent(wrapping_sub(sent, received), sent)), Panics}
        ELSE {Returns(Percent(wrapping_sub(sent, received), sent))}

LossInit ==
    /\ plCall = None
    /\ plRet = Returns(Wide(0, 0))

\* a call of calculate_packet_loss (the function keeps no state: one call
\* per behaviour shows all it can do)
CalculatePacketLoss ==
    /\ plCall = None
    /\ \E sent \in 0 .. MaxPackets, received \in 0 .. MaxPackets :
         /\ plCall' = Some([sent |-> sent, received |-> received])
         /\ plRet' \in calculate_packet_loss(sent, received)
    /\ UNCHANGED <<clockVars, agentVars, transportVars, captureVars, encoderVars,
                   rateVars, configVars, formatVars, inputVars, lockVars,
                   agentLockVars, msgVars>>

(* ======================================================================= *)
(*                               input.rs                                  *)
(* ======================================================================= *)

\* the input tasks spawned: the n-th start() spawns task n, which reads
\* channel n
InputTaskIds == 1 .. MaxInputStarts

\* input_tx holding a sender that set_input_sender stored
External == MaxInputStarts + 1

\* InputManager::new, lines 21-31
InputInit ==
    /\ is_enabled = FALSE
    /\ input_tx = 0
    /\ input_handle = 0
    /\ inputTaskPc = [t \in InputTaskIds |-> "none"]
    /\ inputPc = "idle"

\* start -> start_input_processing, lines 170-203: a new channel, whose
\* sender replaces the one in input_tx; the task is spawned and its handle
\* replaces the one in input_handle
InputStartSpawn ==
    /\ inputPc = "idle"
    /\ \E t \in InputTaskIds :
         /\ inputTaskPc[t] = "none"
         /\ \A u \in InputTaskIds : u < t => inputTaskPc[u] # "none"
         /\ input_tx' = t
         /\ input_handle' = t
         /\ inputTaskPc' = [inputTaskPc EXCEPT ![t] = "check"]
    /\ inputPc' = "start_enable"
    /\ UNCHANGED is_enabled
    /\ UNCHANGED <<clockVars, agentVars, transportVars, captureVars, encoderVars,
                   rateVars, configVars, formatVars, lockVars, agentLockVars,
                   msgVars, lossVars>>

\* start, lines 39-42: *is_enabled = true, and start returns
InputStartEnable ==
    /\ inputPc = "start_enable"
    /\ is_enabled' = TRUE
    /\ inputPc' = "idle"
    /\ UNCHANGED <<input_tx, input_handle, inputTaskPc>>
    /\ UNCHANGED <<clockVars, agentVars, transportVars, captureVars, encoderVars,
                   rateVars, configVars, formatVars, lockVars, agentLockVars,
                   msgVars, lossVars>>

\* set_input_sender, lines 66-68: the stored sender is replaced (and the one
\* it replaces is dropped)
set_input_sender ==
    /\ inputPc = "idle"
    /\ input_tx' = External
    /\ UNCHANGED <<is_enabled, input_handle, inputTaskPc>>
    /\ UNCHANGED inputPc
    /\ UNCHANGED <<clockVars, agentVars, transportVars, captureVars, encoderVars,
                   rateVars, configVars, formatVars, lockVars, agentLockVars,
                   msgVars, lossVars>>

\* input task, line 178: while *is_enabled.lock().unwrap()
InputTaskCheck(t) ==
    /\ inputTaskPc[t] = "check"
    /\ inputTaskPc' = [inputTaskPc EXCEPT ![t] =
                          IF is_enabled THEN "recv" ELSE "done"]
    /\ UNCHANGED <<is_enabled, input_tx, input_handle, inputPc>>
    /\ UNCHANGED <<clockVars, agentVars, transportVars, captureVars, encoderVars,
                   rateVars, configVars, formatVars, lockVars, agentLockVars,
                   msgVars, lossVars>>

\* input task, line 179: input_rx.recv().await. Nothing sends on the channel
\* (its only sender is the one in input_tx, which no method uses), so recv()
\* returns only once that sender is dropped, and then None: the if let is
\* skipped and the loop tests the flag again
InputTaskRecvNone(t) ==
    /\ inputTaskPc[t] = "recv"
    /\ input_tx # t
    /\ inputTaskPc' = [inputTaskPc EXCEPT ![t] = "check"]
    /\ UNCHANGED <<is_enabled, input_tx, input_handle, inputPc>>
    /\ UNCHANGED <<clockVars, agentVars, transportVars, captureVars, encoderVars,
                   rateVars, configVars, formatVars, lockVars, agentLockVars,
                   msgVars, lossVars>>

\* stop, lines 52-55: *is_enabled = false
InputStopClear ==
    /\ inputPc = "idle"
    /\ is_enabled' = FALSE
    /\ inputPc' = "stop_await"
    /\ UNCHANGED <<input_tx, input_handle, inputTaskPc>>
    /\ UNCHANGED <<clockVars, agentVars, transportVars, captureVars, encoderVars,
                   rateVars, configVars, formatVars, lockVars, agentLockVars,
                   msgVars, lossVars>>

\* stop, lines 58-63: input_handle.take(); a handle that was there is
\* awaited, and stop returns once that task has ended
InputStopReturn ==
    /\ inputPc = "stop_await"
    /\ input_handle # 0 => inputTaskPc[input_handle] = "done"
    /\ input_handle' = 0
    /\ inputPc' = "stopped"
    /\ UNCHANGED <<is_enabled, input_tx, inputTaskPc>>
    /\ UNCHANGED <<clockVars, agentVars, transportVars, captureVars, encoderVars,
                   rateVars, configVars, formatVars, lockVars, agentLockVars,
                   msgVars, lossVars>>

\* the owner goes on after stop() returned
InputAfterStop ==
    /\ inputPc = "stopped"
    /\ inputPc' = "idle"
    /\ UNCHANGED <<is_enabled, input_tx, input_handle, inputTaskPc>>
    /\ UNCHANGED <<clockVars, agentVars, transportVars, captureVars, encoderVars,
                   rateVars, configVars, formatVars, lockVars, agentLockVars,
                   msgVars, lossVars>>

(* ======================================================================= *)
(*                            specifications                               *)
(* ======================================================================= *)

Init ==
    /\ now = 0
    /\ advances = 0
    /\ AgentInit
    /\ TransportInit
    /\ CaptureInit
    /\ PacingInit
    /\ EncoderInit
    /\ RateInit
    /\ ConfigInit
    /\ FormatInit
    /\ InputInit
    /\ LockInit
    /\ AgentLockInit
    /\ MsgInit
    /\ LossInit

\* the wall clock moves on
Advance ==
    /\ advances < MaxAdvances
    /\ \E d \in ClockSteps : now' = now + d
    /\ advances' = advances + 1
    /\ UNCHANGED <<agentVars, transportVars, captureVars, encoderVars,
                   rateVars, configVars, formatVars, inputVars, lockVars,
                   agentLockVars, msgVars, lossVars>>

AgentNext ==
    \/ Advance
    \/ \E c \in Callers : CreateInsert(c)
    \/ \E c \in Callers : CreateStatus(c)
    \/ \E c \in Callers : DestroyRemove(c)
    \/ \E c \in Callers : DestroyStatus(c)
    \/ Start
    \/ SweepTick
    \/ SweepScan
    \/ SweepRemove
    \/ SweepLoop
    \/ StatusTick
    \/ StatusShutdown
    \/ StopBegin
    \/ StopDestroy
    \/ StopSignal

TransportNext ==
    \/ \E c \in TCallers : create_webrtc_connection(c)
    \/ \E c \in TCallers : create_websocket_connection(c)
    \/ \E c \in TCallers : send_message(c)
    \/ \E c \in TCallers : BroadcastBegin(c)
    \/ \E c \in TCallers : BroadcastSend(c)
    \/ \E c \in TCallers : BroadcastReturn(c)
    \/ \E c \in TCallers : CloseLookup(c)
    \/ \E c \in TCallers : CloseResource(c)
    \/ \E c \in TCallers : CloseRegistry(c)
    \/ TmStart
    \/ set_message_sender
    \/ MsgTaskEnd
    \/ TmStopWebrtc
    \/ TmStopWebsocket
    \/ TmStopRegistry
    \/ TmStopReturn
    \/ TmAfterStop

CaptureNext ==
    \/ set_frame_sender
    \/ set_quality
    \/ set_framerate
    \/ CaptureStart
    \/ CaptureStopBegin
    \/ CaptureStopReturn
    \/ \E t \in TaskIds : TaskCheck(t)
    \/ \E t \in TaskIds : TaskSleep(t)
    \/ \E t \in TaskIds : TaskCaptureFails(t)
    \/ \E t \in TaskIds : TaskCapture(t)
    \/ \E t \in TaskIds : TaskSend(t)
    \/ \E t \in TaskIds : TaskSendFails(t)
    \/ ReceiveFrame
    \/ DropReceiver

SpecAgent == Init /\ [][AgentNext]_vars

\* the agent, with the inbound messages of its sessions' clients
InboundNext ==
    \/ AgentNext
    \/ InboundEvent

SpecInbound == Init /\ [][InboundNext]_vars

\* the session API, the sweep and the status task as takers of the two locks
AgentLocksNext ==
    \/ \E t \in ATasks : ALCall(t)
    \/ \E t \in ATasks : ALAcquire(t)
    \/ \E t \in ATasks : ALRelease(t)
    \/ \E t \in ATasks : ALReturn(t)

SpecAgentLocks == Init /\ [][AgentLocksNext]_vars

SpecTransport == Init /\ [][TransportNext]_vars

\* the transport manager under the tokio scheduler: the message task runs
\* whenever recv() can return, and a stop() that was called takes each of
\* its steps as soon as the step can be taken
TransportFairness ==
    /\ WF_vars(MsgTaskEnd)
    /\ WF_vars(TmStopWebsocket)
    /\ WF_vars(TmStopRegistry)
    /\ WF_vars(TmStopReturn)

SpecTransportLive == Init /\ [][TransportNext]_vars /\ TransportFairness

\* the registry under create_*_connection and close_connection, with the
\* senders' locks
LocksNext ==
    \/ \E c \in TCallers : create_webrtc_connection(c)
    \/ \E c \in TCallers : create_websocket_connection(c)
    \/ \E c \in TCallers : CloseLookup(c)
    \/ \E c \in TCallers : CloseResource(c)
    \/ \E c \in TCallers : CloseRegistry(c)
    \/ \E s \in Senders : SendLookup(s)
    \/ \E s \in Senders : PollSend(s)

SpecLocks == Init /\ [][LocksNext]_vars

\* the registry under create_*_connection and close_connection, the clock,
\* and the message task with Messages in its channel
MessagesNext ==
    \/ Advance
    \/ \E c \in TCallers : create_webrtc_connection(c)
    \/ \E c \in TCallers : create_websocket_connection(c)
    \/ \E c \in TCallers : CloseLookup(c)
    \/ \E c \in TCallers : CloseResource(c)
    \/ \E c \in TCallers : CloseRegistry(c)
    \/ TmStart
    \/ MsgTaskRecv
    \/ MsgTaskProcess

SpecMessages == Init /\ [][MessagesNext]_vars

SpecCapture == Init /\ [][CaptureNext]_vars

PacingNext ==
    \/ PaceIter
    \/ PaceSleep
    \/ PaceCapture
    \/ PaceSend
    \/ PaceTick

SpecPacing == Init /\ [][PacingNext]_vars

RateNext ==
    \/ RateWait
    \/ RateDeliver
    \/ RateCaptureFails

SpecRate == Init /\ [][RateNext]_vars

ConfigNext ==
    \/ ConfigBuild
    \/ ConfigValidate

SpecConfig == Init /\ [][ConfigNext]_vars

FormatNext ==
    \/ FormatBytes
    \/ FormatBitrate

SpecFormat == Init /\ [][FormatNext]_vars

LossNext == CalculatePacketLoss

SpecLoss == Init /\ [][LossNext]_vars

InputNext ==
    \/ InputStartSpawn
    \/ InputStartEnable
    \/ set_input_sender
    \/ \E t \in InputTaskIds : InputTaskCheck(t)
    \/ \E t \in InputTaskIds : InputTaskRecvNone(t)
    \/ InputStopClear
    \/ InputStopReturn
    \/ InputAfterStop

\* the input manager under the tokio scheduler: a task that can run does,
\* and a stop() that can return does
InputFairness ==
    /\ \A t \in InputTaskIds : WF_vars(InputTaskCheck(t))
    /\ \A t \in InputTaskIds : WF_vars(InputTaskRecvNone(t))
    /\ WF_vars(InputStopReturn)

SpecInput == Init /\ [][InputNext]_vars /\ InputFairness

EncoderNext ==
    \/ EncoderNew
    \/ EncoderInitialize
    \/ EncoderInitializeFails
    \/ encode_frame
    \/ encode_frame_to_frame
    \/ EncoderGetBitrate
    \/ EncoderShutdown

SpecEncoder == Init /\ [][EncoderNext]_vars

(* ======================================================================= *)
(*                              properties                                 *)
(* ======================================================================= *)

\* ids whose create_session has returned
CreatedReturned ==
    {id \in DOMAIN created :
        \A c \in Callers : ~(callerPc[c] = "create_status" /\ callerId[c] = id)}

\* ids on which a destroy_session was called (returned or still running)
DestroyCalled ==
    destroyReturned \cup {callerId[c] : c \in {x \in Callers : callerPc[x] = "destroy_status"}}

\* C1: once create_session(client_id, ..) has returned s, get_session(s)
\* yields a session with that client_id for as long as s was neither destroyed
\* nor evicted; once destroy_session(s) has returned, get_session(s) yields None.
C1_CreateGetDestroy ==
    \A s \in KnownIds :
        /\ (s \in CreatedReturned /\ s \notin DestroyCalled /\ s \notin evicted)
              => /\ get_session(s) # None
                 /\ get_session(s)[1].client_id = created[s]
        /\ s \in destroyReturned => get_session(s) = None

C1_Witness ==
    \E s \in CreatedReturned, d \in DOMAIN created :
        /\ s # d
        /\ s \notin DestroyCalled /\ s \notin evicted
        /\ get_session(s) # None
        /\ d \in destroyReturned
        /\ get_session(d) = None

\* C2: the sweep's scan collects exactly the sessions whose idle time at the
\* sweep's `now` exceeds the configured timeout of one hour, idle time and
\* timeout taken in the same unit (seconds): none fewer, none more.
C2_SweepEvictsExactlyExpired ==
    [][(sweepPc = "scan" /\ sweepPc' = "remove")
          => sessions_to_remove' =
               {id \in DOMAIN sessions :
                   sweepNow - sessions[id].last_activity > SessionTimeoutSecs}]_vars

\* C3: when broadcast_message returns, it returns Ok and has made exactly one
\* send attempt to each id that was registered when it was called, whatever
\* the individual sends returned.
C3_BroadcastReachesAll ==
    [][\A c \in TCallers :
          (tPc[c] = "bcast" /\ tPc'[c] = "idle")
             => /\ tRet' = Returned("broadcast", 0, "-", "Ok")
                /\ DOMAIN bcastAttempts[c] = bcastSnapshot[c]
                /\ \A id \in bcastSnapshot[c] : bcastAttempts[c][id] = 1]_vars

C3_Witness ==
    \E c \in TCallers :
        /\ tPc[c] = "bcast"
        /\ bcastLeft[c] = {}
        /\ Cardinality(bcastSnapshot[c]) >= 2
        /\ bcastErrs[c] # {}
        /\ DOMAIN bcastAttempts[c] = bcastSnapshot[c]

\* C4: every close_connection returns Ok; when it returns, its id is in none
\* of the registry and the two resource maps, and an id that is not registered
\* is never registered later; so a second close_connection on the same id,
\* like one on an id that was never registered, finds no entry, and such a
\* call changes none of the three maps.
C4_CloseIdempotent ==
    [][/\ (tRet' # tRet /\ tRet'.op \in {"close", "close_miss"})
            => /\ tRet'.res = "Ok"
               /\ tRet'.id \notin DOMAIN connections'
               /\ tRet'.id \notin webrtc_peer_connections'
               /\ tRet'.id \notin websocket_connections'
       /\ \A c \in TCallers :
             (tPc[c] = "close_registry" /\ tPc'[c] = "idle")
                => (tRet'.op = "close" /\ tRet'.id = tId[c])
       /\ \A id \in KnownConnIds :
             id \notin DOMAIN connections => id \notin DOMAIN connections'
       /\ (tRet' # tRet /\ tRet'.op = "close_miss")
            => /\ connections' = connections
               /\ webrtc_peer_connections' = webrtc_peer_connections
               /\ websocket_connections' = websocket_connections]_vars

C4_Witness ==
    /\ tRet.op = "close_miss"
    /\ tRet.id \in closed
    /\ connections # EmptyMap

\* C5: send_message on an id that is not registered returns the Transport
\* error "Connection not found", attempts no write, and changes none of the
\* registry and the two resource maps.
C5_SendUnknown ==
    [][(/\ tRet' # tRet
        /\ tRet'.op = "send"
        /\ tRet'.id \notin DOMAIN connections)
          => /\ tRet'.res = "Err: Connection not found"
             /\ ws_written' = ws_written
             /\ connections' = connections
             /\ webrtc_peer_connections' = webrtc_peer_connections
             /\ websocket_connections' = websocket_connections]_vars

C5_Witness ==
    /\ tRet.op = "send"
    /\ tRet.id \notin DOMAIN connections
    /\ tRet.res = "Err: Connection not found"
    /\ connections # EmptyMap

\* C6: create_webrtc_connection / create_websocket_connection return an id
\* that was not registered, and add exactly one entry, under that id, with the
\* given client_id, the transport type of the call and state Connecting; the
\* entries registered before are unchanged.
C6_CreateAddsOne ==
    [][conn_uuid_count' # conn_uuid_count
          => /\ tRet'.res = "Ok"
             /\ tRet'.op \in {"WebRTC", "WebSocket"}
             /\ tRet'.id \notin DOMAIN connections
             /\ DOMAIN connections' = (DOMAIN connections) \cup {tRet'.id}
             /\ connections'[tRet'.id].client_id = tRet'.client
             /\ connections'[tRet'.id].transport_type = tRet'.op
             /\ connections'[tRet'.id].state = "Connecting"
             /\ \A x \in DOMAIN connections : connections'[x] = connections[x]]_vars

C6_Witness ==
    /\ tRet.op \in {"WebRTC", "WebSocket"}
    /\ tRet.id \in DOMAIN connections
    /\ connections[tRet.id].client_id = tRet.client
    /\ Cardinality(DOMAIN connections) >= 2

\* C7: destroy_session on an id that is not in the registry leaves the
\* registry as it is, and destroy_session returns Ok.
C7_DestroyIdempotent ==
    [][\A c \in Callers :
          /\ (/\ callerPc[c] = "idle"
               /\ callerPc'[c] = "destroy_status"
               /\ callerId'[c] \notin DOMAIN sessions)
                 => sessions' = sessions
          /\ (callerPc[c] = "destroy_status" /\ callerPc'[c] = "idle")
                 => (callerRet'[c] = "Ok" /\ sessions' = sessions)]_vars

C7_Witness ==
    \E c \in Callers :
        /\ callerPc[c] = "destroy_status"
        /\ callerId[c] \in destroyReturned
        /\ callerId[c] \in DOMAIN created
        /\ sessions # EmptyMap

\* C8: when TransportManager::stop has returned, the registry and the two
\* resource maps are empty.
C8_StopEmpties ==
    tmPc = "stopped"
       => /\ connections = EmptyMap
          /\ webrtc_peer_connections = {}
          /\ websocket_connections = {}

C8_Witness ==
    /\ tmPc = "stopped"
    /\ tmCleared >= 2
    /\ conn_uuid_count >= 2

\* C9: once CaptureManager::stop has returned (and start has not been called
\* again), no capture task produces a frame and none sends one.
C9_NoFrameAfterStop ==
    [][capPc = "stopped"
          => /\ frame_chan' <= frame_chan
             /\ \A t \in TaskIds : taskPc'[t] = "send" => taskPc[t] = "send"]_vars

\* C10: once Agent::stop has returned, the sweep task and the status task
\* spawned by start have both terminated.
C10_NoTaskOutlivesStop ==
    agentPc = "stopped"
       => /\ sweepPc \in {"none", "done"}
          /\ statusPc \in {"none", "done"}

\* C11: when Agent::stop has returned, the session registry is empty and the
\* session count held in the status (what get_status reports) is 0.
C11_StopDestroysAll ==
    agentPc = "stopped"
       => /\ sessions = EmptyMap
          /\ status.sessions = 0

\* the scheduling the liveness properties of the capture loop rely on: a
\* runnable task is polled; the interval elapses and, apart from the calls
\* counted by capErr, capture_frame succeeds; the channel serves its
\* senders in turn; the receiver keeps taking frames while it lives
CaptureFairness ==
    /\ \A t \in TaskIds :
         /\ WF_vars(TaskCheck(t))
         /\ SF_vars(TaskCapture(t))
         /\ SF_vars(TaskSend(t))
         /\ WF_vars(TaskSendFails(t))
    /\ WF_vars(ReceiveFrame)

\* the capture manager with the configuration it was built with: every
\* operation but set_quality and set_framerate, which no task reads
CaptureLiveNext ==
    \/ set_frame_sender
    \/ CaptureStart
    \/ CaptureStopBegin
    \/ CaptureStopReturn
    \/ \E t \in TaskIds : TaskCheck(t)
    \/ \E t \in TaskIds : TaskSleep(t)
    \/ \E t \in TaskIds : TaskCaptureFails(t)
    \/ \E t \in TaskIds : TaskCapture(t)
    \/ \E t \in TaskIds : TaskSend(t)
    \/ \E t \in TaskIds : TaskSendFails(t)
    \/ ReceiveFrame
    \/ DropReceiver

SpecCaptureLive == Init /\ [][CaptureLiveNext]_vars /\ CaptureFairness

\* C12: a capture task ends only because the capturing flag was cleared or
\* because the frame channel is closed, never because capture_frame returned
\* Err; and a task that does not end goes on delivering frames, whatever
\* capture errors it met.
C12_ErrorsDoNotEndTask ==
    /\ [][\A t \in TaskIds :
            (taskPc[t] # "done" /\ taskPc'[t] = "done")
               => \/ (taskPc[t] = "check" /\ ~is_capturing)
                  \/ (taskPc[t] = "send" /\ ~rx_open)]_vars
    /\ \A t \in TaskIds :
         \/ []<><<TaskSend(t)>>_vars
         \/ <>[](taskPc[t] \in {"none", "done"})

C12_Witness ==
    /\ spawned = 1
    /\ capErr > 0
    /\ taskPc[1] = "send"
    /\ is_capturing
    /\ rx_open

\* C13: with framerate 30, a backend that always succeeds and a sink that
\* always accepts, two consecutive frames are delivered no less than the
\* frame interval (1000 ms / 30) apart.
C13_DeliveriesSpaced ==
    [][(pPc = "send" /\ pPc' = "iter" /\ pDelivered)
          => pSinceDelivery >= PaceInterval]_vars

\* C14: a frame captured by a running task carries the quality last given to
\* set_quality, and the task's frame interval is 1000 ms / the framerate last
\* given to set_framerate.
C14_SettersReachRunningTask ==
    [][\A t \in TaskIds :
          (taskPc[t] = "body" /\ taskPc'[t] = "send")
             => /\ task_quality[t] = config_quality
                /\ task_interval[t] = frame_interval(config_framerate)]_vars

C16_EncodeNeedsInitialize ==
    [][frame_count' = frame_count + 1
          => /\ (~initCalled \/ shutSinceInit)
                   => encRet'.res = "Err: EncoderNotInitialized"
             /\ initOk => encRet'.res = "Ok"]_vars

\* C17: after every encode_frame call on an encoder whose frame rate is at
\* least 1, fewer than frame rate * 2 frames have been counted since the last
\* keyframe.
C17_KeyframeInterval ==
    (encPc # "none" /\ enc_framerate >= 1 /\ frame_count > 0)
       => frame_count - last_keyframe < enc_framerate * 2

\* C17, witness: at frame rate 2 the second keyframe, at frame 8, has been
\* followed by one more frame
C17_Witness ==
    enc_framerate = 2 /\ frame_count = 9 /\ last_keyframe = 8

\* C18: get_bitrate returns 500 kbps, 1.5 Mbps, 3 Mbps and 6 Mbps for Low,
\* Medium, High and Ultra, and no quality has a higher bitrate than a quality
\* that comes after it in the enum.
C18_BitrateMonotone ==
    bitrate # 0
       => /\ enc_quality = "Low" => bitrate = 500 * 1000
          /\ enc_quality = "Medium" => bitrate = 1500 * 1000
          /\ enc_quality = "High" => bitrate = 3000 * 1000
          /\ enc_quality = "Ultra" => bitrate = 6000 * 1000
          /\ \A q \in Quality :
                /\ QualityRank(q) <= QualityRank(enc_quality) => get_bitrate(q) <= bitrate
                /\ QualityRank(q) >= QualityRank(enc_quality) => get_bitrate(q) >= bitrate

\* C18, witness: get_bitrate has been applied to Ultra
C18_Witness ==
    encPc = "ready" /\ enc_quality = "Ultra" /\ bitrate = get_bitrate("Ultra")

\* C19: an inbound message of a registered session sets that session's
\* last_activity to the current time.
C19_InboundTouches ==
    [][(inbound' # inbound /\ inbound' \in DOMAIN sessions)
          => sessions'[inbound'].last_activity = now]_vars

\* C20: every ConnectionInfo in the registry has its transport resource: the
\* id of a WebRTC entry is a key of the peer-connection map, the id of a
\* WebSocket entry a key of the WebSocket map.
C20_RegistryHasResource ==
    \A id \in DOMAIN connections :
        /\ connections[id].transport_type = "WebRTC" => id \in webrtc_peer_connections
        /\ connections[id].transport_type = "WebSocket" => id \in websocket_connections

\* the edges of the connection state machine
StateEdges ==
    {<<"Disconnected", "Connecting">>, <<"Connecting", "Connected">>,
     <<"Connected", "Reconnecting">>, <<"Reconnecting", "Connected">>,
     <<"Connected", "Failed">>, <<"Reconnecting", "Failed">>}
      \cup {<<s, "Disconnected">> : s \in ConnectionState \ {"Failed", "Disconnected"}}

C22_CountIsLive ==
    (CallersIdle /\ agentPc # "stop_sessions")
       => status.sessions = HashMapLen(sessions)

\* the scheduling of a run whose sink may stop draining: the tasks and the
\* owner inside stop() are polled whenever they can go on, as under
\* CaptureFairness; nothing is assumed of the holder of the receiving end
StalledSinkFairness ==
    /\ \A t \in TaskIds :
         /\ WF_vars(TaskCheck(t))
         /\ SF_vars(TaskCapture(t))
         /\ SF_vars(TaskSend(t))
         /\ WF_vars(TaskSendFails(t))
    /\ WF_vars(CaptureStopReturn)

SpecCaptureStalled == Init /\ [][CaptureLiveNext]_vars /\ StalledSinkFairness

\* C23: a full frame channel whose consumer does not drain it never stalls
\* the capture task, so that a stop() that has begun returns.
C23_StopReturnsDespiteFullSink ==
    (capPc = "stopping") ~> (capPc = "stopped")

\* C24: once Agent::start has returned, the capture manager has its frame
\* sink and a running capture task, and an encoder exists to take the frames.
C24_StartWiresPipeline ==
    agentPc = "running"
       => /\ frame_tx
          /\ is_capturing
          /\ capture_handle # 0
          /\ encPc = "ready"

\* C25: at the end of a one-second window the fps metric equals, within the
\* jitter tolerance, the number of frames delivered to the sink in the window.
C25_FpsIsDeliveredRate ==
    wTime = WindowMs
       => /\ fps - wDelivered <= JitterTolerance
          /\ wDelivered - fps <= JitterTolerance

\* C26: validate returns Ok for Config::default(), and a Config error for the
\* default with server.port = 0 and for the default with capture.framerate = 0.
C26_DefaultIsValid ==
    (conf # None /\ validateRet # "-")
       => /\ conf[1] = DefaultConfig => validateRet = "Ok"
          /\ conf[1] = [DefaultConfig EXCEPT !.server.port = 0]
                => validateRet \in ConfigErrors
          /\ conf[1] = [DefaultConfig EXCEPT !.capture.framerate = 0]
                => validateRet \in ConfigErrors

\* C27: format_bytes renders 1024, 1024^2 and 1024^3 as "1.0 KB", "1.0 MB"
\* and "1.0 GB", format_bitrate renders 1000, 10^6 and 10^9 as "1.0 Kbps",
\* "1.0 Mbps" and "1.0 Gbps"; every value is rendered in the largest unit
\* that does not exceed it.
C27_LargerUnitAtBoundary ==
    /\ fmtOp = "format_bytes"
          => /\ fmtArg = KB => fmtRet = "1.0 KB"
             /\ fmtArg = MB => fmtRet = "1.0 MB"
             /\ fmtArg = GB => fmtRet = "1.0 GB"
             /\ fmtRet = IF fmtArg >= GB THEN Fixed1(fmtArg, GB) \o " GB"
                         ELSE IF fmtArg >= MB THEN Fixed1(fmtArg, MB) \o " MB"
                         ELSE IF fmtArg >= KB THEN Fixed1(fmtArg, KB) \o " KB"
                         ELSE ToString(fmtArg) \o " B"
    /\ fmtOp = "format_bitrate"
          => /\ fmtArg = KBPS => fmtRet = "1.0 Kbps"
             /\ fmtArg = MBPS => fmtRet = "1.0 Mbps"
             /\ fmtArg = GBPS => fmtRet = "1.0 Gbps"
             /\ fmtRet = IF fmtArg >= GBPS THEN Fixed1(fmtArg, GBPS) \o " Gbps"
                         ELSE IF fmtArg >= MBPS THEN Fixed1(fmtArg, MBPS) \o " Mbps"
                         ELSE IF fmtArg >= KBPS THEN Fixed1(fmtArg, KBPS) \o " Kbps"
                         ELSE ToString(fmtArg) \o " bps"

\* C28: a TransportManager::stop called after start eventually returns: the
\* message task ends once stop is awaiting it, although the manager still
\* holds the sender of the task's channel.
C28_StopReturns ==
    (tmPc = "stop_ws" /\ transport_handle) ~> (tmPc = "stopped")

\* C29: an InputManager::stop called after start eventually returns: the
\* input task sees the cleared is_enabled flag and ends, although no event
\* is queued after stop and the manager still holds the channel's sender.
C29_InputStopReturns ==
    (inputPc = "stop_await" /\ input_handle # 0) ~> (inputPc = "stopped")

\* C30: no transport operation holds a state lock while it awaits network
\* I/O: a task inside send_message that is suspended at the await of the
\* channel write holds the guard of none of the three maps.
C30_NoLockAcrossAwait ==
    \A s \in Senders :
        sendPc[s] \in {"await_send", "await_ws_send"}
           => \A l \in Locks : lock_holder[l] # s

\* C31: the sweep does not race with create_session and destroy_session: a
\* session the sweep removes was in its snapshot and had been idle for more
\* than session_timeout when the snapshot was taken (so, the clock never
\* going back, it has been idle that long when it is removed), and the
\* removal of an id that is no longer registered changes nothing.
C31_SweepRemovesOnlyExpired ==
    [][(sweepPc = "remove" /\ sessions_to_remove' # sessions_to_remove)
          => \A id \in DOMAIN sessions :
                id \notin DOMAIN sessions'
                   => /\ id \in sessions_to_remove
                      /\ now - sessions[id].last_activity > session_timeout]_vars

C34_LossIsAPercentage ==
    plCall # None
       => LET sent == plCall[1].sent
              received == plCall[1].received
          IN  /\ ~plRet.panic
              /\ plRet.value.hi = 0
              /\ plRet.value.lo <= 100
              /\ sent = 0 => plRet.value.lo = 0
              /\ (sent > 0 /\ received <= sent)
                    => plRet.value.lo = ((sent - received) * 100) \div sent
              /\ (sent = 100 /\ received = 95) => plRet.value.lo = 5

\* C35: once InputManager::start has returned (and until stop is called),
\* the input task it spawned is alive: its first test of is_enabled cannot
\* have made it exit.
C35_InputTaskAliveAfterStart ==
    (inputPc = "idle" /\ is_enabled /\ input_handle # 0)
       => inputTaskPc[input_handle] # "done"

C37_OneTaskWithHandle ==
    \A t \in TaskIds :
        taskPc[t] \notin {"none", "done"}
           => /\ \A u \in TaskIds : taskPc[u] \notin {"none", "done"} => u = t
              /\ capture_handle = t \/ awaited = t

\* C38: between a start() that spawned a capture task and the next stop(),
\* the flag and the task agree: while is_capturing is true the task whose
\* handle is stored has not exited.
C38_FlagMeansTaskRuns ==
    (capPc = "started" /\ is_capturing /\ capture_handle # 0)
       => taskPc[capture_handle] # "done"

\* C39: a failed encode leaves the encoder unchanged: an encode_frame call
\* that returns Err(EncoderNotInitialized) leaves frame_count and
\* last_keyframe as they were before the call.
C39_FailedEncodeChangesNothing ==
    [][((encode_frame \/ encode_frame_to_frame)
           /\ encRet'.res = "Err: EncoderNotInitialized")
          => /\ frame_count' = frame_count
             /\ last_keyframe' = last_keyframe]_vars

\* C40: encode_frame on an initialized encoder never indexes outside its
\* input: for every length of rgba_data the conversion completes without a
\* panic; and for rgba_data of width x height x 4 bytes, width and height
\* even, the conversion yields width x height x 3 / 2 bytes.
C40_ConversionStaysInBounds ==
    [][((encode_frame \/ encode_frame_to_frame) /\ encoder = "Some")
          => /\ encRet'.res # "panic"
             /\ \A w \in EvenDims, h \in EvenDims :
                   rgba_to_yuv420_len(w * h * 4, w, h) = (w * h * 3) \div 2]_vars

=============================================================================
